---- MODULE Spec2Model ----
(***************************************************************************)
(* Model of the rampage-rider simulation core.                             *)
(*                                                                         *)
(*  - VehicleManager (src/unnamed/part_008): current / awaiting vehicle,   *)
(*    tier progression, enter / exit / switch, the cleanup queue and the   *)
(*    ray-cast placement searches.                                         *)
(*  - Car (src/unnamed/part_009): health, takeDamage, explode and its      *)
(*    delayed destroyed-callback.                                          *)
(*  - GameEngine (src/old-code/services/gameEngine.ts): the frame loop,    *)
(*    combo timer, kills and score.                                        *)
(*                                                                         *)
(* Presentation state is left out: the glow of the awaiting vehicle, the    *)
(* avatar's visibility and its place in the scene graph, camera shake and   *)
(* the notification callbacks.  Whether a vehicle is in the scene and how   *)
(* often it was disposed is kept.                                          *)
(*                                                                         *)
(* Time is counted in integer units.  The VehicleManager part counts in    *)
(* seconds (its update(dt) takes any dt); the GameEngine part counts in    *)
(* twentieths of a second (its dt is clamped to 0.1 s = 2 units).          *)
(***************************************************************************)
EXTENDS Integers, Sequences, FiniteSets, TLC

\* ------------------------------------------------------------------------
\* Bounds of the model
\* ------------------------------------------------------------------------

\* Number of Vehicle objects that can be constructed in one behaviour.
MaxVehicles == 3

\* Largest score, in threshold units, the score input reaches.
MaxScore == 2

\* Largest dt, in seconds, handed to VehicleManager.update.
MaxDt == 2

\* Largest number of entities alive at once in the GameEngine.
MaxEntities == 2

\* Largest kill count of a run under every input.
MaxKills == 3

\* Largest kill count of a run in a killing spree.
MaxChain == 10

\* Ticks of the entity loop in one behaviour.
MaxLoopTicks == 3

\* Scores handed to checkTierProgression on every input, in threshold units:
\* up to past the last threshold.
MaxTierScore == 5

\* Buffer sources the AudioManager creates.
MaxSources == 4

\* Overlapping calls of Preloader.preloadAll.
MaxPreloadCalls == 3

\* Items the asset loader reports in each of its sub-phases.
AssetTotal == 3

\* PHASE_WEIGHTS and the progress of a finished load, in thousandths.
PHASE_WEIGHT_PHYSICS == 100

PHASE_WEIGHT_MODELS == 600

PHASE_WEIGHT_CLONING == 300

PROGRESS_COMPLETE == 1000

\* Capacities of a CircularBuffer, pushes between two clears, values pushed.
MaxCapacity == 3

MaxPushes == 5

BufferValues == {1, 2, 5}

\* Notifications added to one NotificationSystem, and their combo values.
MaxNotifications == 6

NotificationCombos == {0, 20}

\* Notifications shown at once.
NOTIFICATION_LIMIT == 3

\* Frame times handed to AncestorCouncil.update, in hundredths of a second.
CouncilDts == {2, 10, 50}

\* SPIRAL_CONFIG.GHOST_OPACITY and the opacity under which the meshes are
\* hidden, in millionths; the lerp speeds of update, per second.
GHOST_OPACITY == 600000

HIDE_OPACITY == 10000

LERP_SPEED_ACTIVE == 4

LERP_SPEED_INACTIVE == 2

\* musicCrossfadeDuration, in half seconds.
MUSIC_CROSSFADE_DURATION == 2

\* Largest kill count of a run under the App.
MaxAppKills == 2

\* Animation-frame requests that can be pending at once.
MaxFrames == 2

\* Largest |x| and |z| the Cop's steering takes it to.
MaxCoord == 1

\* Length of the Active rampage in time units: the configured duration is not
\* in the sources, the model takes a short one.
MaxRampageTime == 4

\* Most kills of one run of the Engine before its first rampage (twice as
\* many before its second, once the combo count has been reset), and most
\* kills of a run.
MaxCalmKills == 10

MaxRunKills == 25

\* Most kills the combat of one tick reports.
MaxTickKills == 2

\* The street reaches from cell -MaxStreet to cell MaxStreet.
MaxStreet == 2

\* Cops of the squad.
SquadSize == 2

\* Greatest height, in tenths, a Car's body is created at.
MaxHeight == 6

\* TIER_CONFIGS[Tier.FOOT].maxHealth, the avatar's health at spawn: kept
\* small so that a run ends after a few hits.
FootMaxHealth == 10

\* ------------------------------------------------------------------------
\* Program constants
\* ------------------------------------------------------------------------

\* Car: CAR_CONFIG.MAX_HEALTH
MAX_HEALTH == 100

\* switchToAwaitingVehicle: timer: 3.0 (seconds).
CLEANUP_TIMER == 3

\* killEntity: stats.comboTimer = 3.0, in twentieths of a second.
COMBO_WINDOW == 60

\* animate: dt = Math.min(elapsed, 0.1), in twentieths of a second.
MAX_FRAME_DT == 2

\* killEntity: the 100 points of a kill.
KILL_BASE == 100

\* updateGameLogic: this.player.health -= 5.
CONTACT_DAMAGE == 5

\* spawnEntity: hp = 3 for a cop.
COP_HEALTH == 3

\* Overlay: Math.min(stats.combo, 50), the combo count the shown multiplier stops at.
COMBO_CAP == 50

\* Cop: private health: number = 1.
COP_START_HEALTH == 1

\* Cop: chaseSpeed = 9.0, the Yuka vehicle's maxSpeed.
CHASE_SPEED == 9

\* Cop.setChaseTarget: behaviour weights 0.8, 1.5 and 0.3, in tenths.
SEEK_WEIGHT == 8

SEPARATION_WEIGHT == 15

OBSTACLE_WEIGHT == 3

\* Damage amounts handed to takeDamage.
DamageAmounts == {50, 100}

\* Collision groups: CAR_CONFIG.COLLISION_GROUPS, the Cop's membership, and
\* the groups of docs/claude/architecture.md.
GROUND == 1

PLAYER == 2

PEDESTRIAN == 4

COP == 8

DEBRIS == 16

PROJECTILE == 32

BUILDING == 64

VEHICLE == 128

\* setCollisionGroups(0x00450080) of the Car's collider.
CAR_COLLIDER_GROUPS == 4522112

\* The Car's downward movement of one tick, "-0.1 * deltaTime", in tenths
\* for a tick of one second.
GROUNDING == 1

\* "Math.max(0.5, ...)": the least height of a Car's body, in tenths.
KEEP_ABOVE_GROUND == 5

\* updateGameLogic on the z axis, per tick of 0.1 s and in tenths of a unit:
\* the avatar's speed 8, the chase acceleration 10 * dt and the speed limit
\* 5 of clampLength (units per second), the contact range player.radius +
\* ent.radius = 0.5 + 0.4, the knockback multiplyScalar(5), the camera's
\* offset 20 behind the avatar and the margin 10 of the distant cleanup.
PLAYER_SPEED == 8

CHASE_ACCELERATION == 1

CHASE_MAX_SPEED == 5

CONTACT_RANGE == 9

KNOCKBACK == 50

CAMERA_OFFSET == 200

DISTANT_MARGIN == 100

\* Time scales in tenths: rampageTimeScale = 1.0, RAMPAGE_SLOW_MO = 0.3.
FULL_SPEED == 10

RAMPAGE_SLOW_MO == 3

\* hitStopDuration = 0.05 s, one time unit.
HIT_STOP_DURATION == 1

\* rampageKillLimit, the kill cap of the Active rampage.
RAMPAGE_KILL_LIMIT == 15

\* RAMPAGE_DIMENSION.COMBO_THRESHOLD, the combo count that opens the rampage.
COMBO_THRESHOLD == 10

NoVehicle == 0
NullTier == "null"
NoPos == <<>>

\* Tier enum, in progression order (types.ts).
Tiers == <<"FOOT", "BIKE", "MOTO", "SEDAN", "TRUCK">>

TierSet == {Tiers[i] : i \in 1..Len(Tiers)}

\* Position of a tier in the progression order (FOOT is 0).
TierRank(t) == (CHOOSE i \in 1..Len(Tiers) : Tiers[i] = t) - 1

\* TIER_CONFIGS[tier].minScore: strictly increasing thresholds.  The score of
\* this part of the model is counted in threshold units.
minScore(t) == TierRank(t)

\* TIER_VEHICLE_MAP: every tier but FOOT has a vehicle type.
TIER_VEHICLE_MAP(t) ==
  CASE t = "BIKE" -> "BICYCLE"
    [] t = "MOTO" -> "MOTORBIKE"
    [] t = "SEDAN" -> "SEDAN"
    [] t = "TRUCK" -> "TRUCK"
    [] OTHER -> "none"

VehicleTypes == {"BICYCLE", "MOTORBIKE", "SEDAN", "TRUCK"}

\* _spawnOffsets, in candidate order.
spawnOffsets ==
  << <<5, 0, 0>>, <<-5, 0, 0>>, <<0, 0, 5>>, <<0, 0, -5>>,
     <<5, 0, 5>>, <<-5, 0, -5>>, <<5, 0, -5>>, <<-5, 0, 5>> >>

\* _exitOffsets, in candidate order.
exitOffsets ==
  << <<3, 0, 0>>, <<-3, 0, 0>>, <<0, 0, 3>>, <<0, 0, -3>> >>

\* THREE.Vector3.add
VecAdd(p, o) == <<p[1] + o[1], p[2] + o[2], p[3] + o[3]>>

\* player.getPosition(): the avatar does not move in this part of the model.
PlayerStart == <<10, 0, 20>>

VARIABLES
  \* ---- VehicleManager fields
  vehicle,              \* this.vehicle: a vehicle id or NoVehicle
  isInVehicle,          \* this.isInVehicle
  vehicleSpawned,       \* this.vehicleSpawned
  currentVehicleTier,   \* this.currentVehicleTier
  awaitingVehicle,      \* this.awaitingVehicle
  awaitingVehicleTier,  \* this.awaitingVehicleTier
  vehiclesToCleanup,    \* this.vehiclesToCleanup: Seq of [vehicle, timer]
  \* ---- the Vehicle objects constructed so far
  numVehicles,          \* ids 1..numVehicles are constructed
  vehicles,             \* id -> the object's fields, scene membership, dispose() calls
  \* ---- the avatar
  playerPos,            \* player.getPosition()
  \* ---- the collision world as the placement searches see it
  worldReady,           \* getWorld() returns a world
  spawnHit,             \* spawn candidate -> collision group the horizontal cast towards it hits
  spawnDownHit,         \* spawn candidate -> collision group the downward cast at it hits
  exitHit,              \* the same for the exit candidates around the current vehicle
  exitDownHit,
  \* ---- inputs and results
  score,                \* the score handed to checkTierProgression
  \* ---- what the step just taken was and returned (reset by every other step)
  lastOp,               \* the operation that made the last step
  lastCheck,            \* what checkTierProgression returned, when it made the last step
  lastExitPos,          \* what exitVehicle returned, when it ran in the last step
  lastExitFrom,         \* the vehicle position that call searched around
  lastExited,           \* the vehicle that call was made for
  lastDt,               \* the dt of the update, when it made the last step
  lastDisposed,         \* the vehicles the last step removed from the scene and disposed
  maxReturned           \* rank of the highest tier checkTierProgression returned since
                        \* the last clear() or debugSpawnVehicle()

vmVars ==
  <<vehicle, isInVehicle, vehicleSpawned, currentVehicleTier, awaitingVehicle,
    awaitingVehicleTier, vehiclesToCleanup, numVehicles, vehicles, playerPos,
    worldReady, spawnHit, spawnDownHit,
    exitHit, exitDownHit, score, lastCheck, lastExitPos, lastExitFrom,
    lastExited, lastDt, lastDisposed, lastOp, maxReturned>>

VARIABLES
  \* ---- GameEngine fields
  state,                \* this.state
  animationId,          \* this.animationId holds a request id (TRUE) or null (FALSE)
  frames,               \* animation-frame requests neither run nor cancelled yet
  entities,             \* this.entities: Seq of [type, health]
  player,               \* this.player
  stats,                \* this.stats: [kills, score, combo, comboTimer]
  \* ---- the run's kill history, measured in tick time
  sinceKill,            \* tick time since the last tick with a kill, up to COMBO_WINDOW
  chain,                \* kills since the last gap of COMBO_WINDOW or more without one
  spaced,               \* those kills came one per tick, with tick time between them
  \* ---- the callbacks
  gameOvers             \* calls of callbacks.onGameOver since the last start()

engineVars ==
  <<state, animationId, frames, entities, player, stats, sinceKill, chain, spaced, gameOvers>>

VARIABLES
  \* ---- one Cop and the objects it holds
  cop                   \* the Cop's fields, its Yuka vehicle and its rigid body

VARIABLES
  copOp                 \* the Cop operation that made the last step

copVars == <<cop, copOp>>

\* The Rampage Dimension of the Engine (design in gameEngine.ts, from line
\* 1777): the published time scale of hostiles and pedestrians in tenths, the
\* hit-stop timer, the state and its kill counter and age, and the combo
\* state it consumes.  Time is in twentieths of a second.
VARIABLES
  rampageTimeScale, hitStopTimer, inRampageMode, rampageKills, rampageTime,
  comboCount, comboTimer, comboScore, comboKills

\* History of the Engine: the last operation and its dt, whether the
\* subsystems ran in it, the dt (in tenths of a time unit) it handed to the
\* avatar and to the hostiles and pedestrians, the number of entries into
\* the rampage so far, and whether the combo count has been at zero since
\* the last entry.
VARIABLES
  rampageOp, tickDt, tickRan, playerDt, entityDt, entries, zeroSinceEntry

rampageVars ==
  <<rampageTimeScale, hitStopTimer, inRampageMode, rampageKills, rampageTime,
    comboCount, comboTimer, comboScore, comboKills,
    rampageOp, tickDt, tickRan, playerDt, entityDt, entries, zeroSinceEntry>>

\* Movement on a street (a line of cells): the cops of a squad, a Car with
\* its rigid body, the standing obstacles (per cell, the membership bits of
\* what stands there, 0 for nothing), and the last movement operation.
VARIABLES
  squad, rider, obstacles, moveOp

moveVars == <<squad, rider, obstacles, moveOp>>

\* The App and its GameCanvas: the App's gameState, the gameActive prop the
\* start/stop effect last ran with ("none" before its first run with the
\* engine ready), whether the last change to PLAYING was a resume, whether the
\* effect last stopped a running engine for a pause ("pause", otherwise
\* "halt", and "no" once it has started it), and the last operation.
VARIABLES
  gameState, gameActive, fromPause, held, appOp

appVars == <<gameState, gameActive, fromPause, held, appOp>>

\* The positions updateGameLogic works on, along z and in tenths of a unit
\* (the avatar's mesh, the camera, each entity's mesh and velocity), and the
\* position accesses of the last tick in their order.
VARIABLES
  track, posLog

loopVars == <<track, posLog>>

\* The calls made so far before the resource they need existed: Car.update
\* without a rigid body, Cop.update of a cop without its model, and
\* spawnVehicle and spawnAwaitingVehicle (by tier) without a world.
VARIABLES
  early

callVars == <<early>>

\* The AudioManager, initialised and with its buffers loaded: the buffer
\* sources created so far (kind "loop" or "music", whether the source is
\* started and not stopped, and the isPlaying flag of a MusicTrack), the
\* entry of playingSounds under the instance id of one entity's engine loop,
\* that entity's entry of engineLoops, the sources whose fade-out timer is
\* pending, the stopped sources whose onended has not run yet, currentMusic,
\* nextMusic and musicCrossfadeTime in half seconds; the last engine-loop
\* call and the last music call made, and the last operation.
VARIABLES
  sources, playingSound, engineLoop, timers, ended, currentMusic, nextMusic,
  musicCrossfadeTime, lastLoopCall, lastMusicCall, audioOp

audioVars ==
  <<sources, playingSound, engineLoop, timers, ended, currentMusic, nextMusic,
    musicCrossfadeTime, lastLoopCall, lastMusicCall, audioOp>>

\* The Preloader singleton (its loaded flags, its two promises, the phase and
\* progress of its loading state, and how many times RAPIER.init and the
\* asset loader were started), and where each call of preloadAll stands.
VARIABLES
  preloader, preloadCalls

preloadVars == <<preloader, preloadCalls>>

\* A CircularBuffer (capacity -1 before it is constructed), and the values
\* pushed into it since it was constructed or last cleared.
VARIABLES
  ring, pushed

bufferVars == <<ring, pushed>>

\* The NotificationSystem component: its notifications state, nextIdRef, and
\* the ids whose removal timer is pending.
VARIABLES
  notifications, nextId, noteTimers

noteVars == <<notifications, nextId, noteTimers>>

\* The AncestorCouncil: isActive, targetOpacity and currentOpacity (in
\* millionths), and whether the ancestor meshes and the debug line are
\* visible.
VARIABLES
  council

councilVars == <<council>>

vars == <<vmVars, engineVars, copVars, rampageVars, moveVars, appVars, loopVars, callVars, audioVars, preloadVars, bufferVars, noteVars, councilVars>>

\* What the steps of one object leave alone: the other objects.
besideManager == <<engineVars, copVars, rampageVars, moveVars, appVars, loopVars, callVars, audioVars, preloadVars, bufferVars, noteVars, councilVars>>

besideEngine == <<vmVars, copVars, rampageVars, moveVars, appVars, loopVars, callVars, audioVars, preloadVars, bufferVars, noteVars, councilVars>>

besideCop == <<vmVars, engineVars, rampageVars, moveVars, appVars, loopVars, callVars, audioVars, preloadVars, bufferVars, noteVars, councilVars>>

besideRampage == <<vmVars, engineVars, copVars, moveVars, appVars, loopVars, callVars, audioVars, preloadVars, bufferVars, noteVars, councilVars>>

besideMovement == <<vmVars, engineVars, copVars, rampageVars, appVars, loopVars, callVars, audioVars, preloadVars, bufferVars, noteVars, councilVars>>

besideApp == <<vmVars, copVars, rampageVars, moveVars, loopVars, callVars, audioVars, preloadVars, bufferVars, noteVars, councilVars>>

besideAudio ==
  <<vmVars, engineVars, copVars, rampageVars, moveVars, appVars, loopVars, callVars, preloadVars, bufferVars, noteVars, councilVars>>

besidePreloader ==
  <<vmVars, engineVars, copVars, rampageVars, moveVars, appVars, loopVars, callVars, audioVars, bufferVars, noteVars, councilVars>>

besideBuffer ==
  <<vmVars, engineVars, copVars, rampageVars, moveVars, appVars, loopVars, callVars, audioVars,
    preloadVars, noteVars, councilVars>>

besideNotifications ==
  <<vmVars, engineVars, copVars, rampageVars, moveVars, appVars, loopVars, callVars, audioVars,
    preloadVars, bufferVars, councilVars>>

besideCouncil ==
  <<vmVars, engineVars, copVars, rampageVars, moveVars, appVars, loopVars, callVars, audioVars,
    preloadVars, bufferVars, noteVars>>

besideLoop == <<vmVars, engineVars, copVars, rampageVars, moveVars, appVars, callVars, audioVars, preloadVars, bufferVars, noteVars, councilVars>>

\* ------------------------------------------------------------------------
\* Vehicle objects (Car)
\* ------------------------------------------------------------------------

\* A Vehicle object that has not been constructed yet.
NoObject ==
  [ health |-> 0, isDestroyed |-> FALSE,
    onDestroyedCallback |-> FALSE, explodeTimer |-> FALSE, explosions |-> 0,
    pos |-> NoPos, near |-> NoPos, inScene |-> FALSE, disposed |-> 0 ]

\* new Vehicle(config); createPhysicsBody(world, spawnPos); scene.add(vehicle)
NewVehicle(spawnPos, sourcePos, withCallback) ==
  [ health |-> MAX_HEALTH, isDestroyed |-> FALSE,
    onDestroyedCallback |-> withCallback, explodeTimer |-> FALSE, explosions |-> 0,
    pos |-> spawnPos, near |-> sourcePos, inScene |-> TRUE, disposed |-> 0 ]

\* scene.remove(v); v.dispose()
RemoveAndDispose(vs, v) ==
  [vs EXCEPT ![v].inScene = FALSE, ![v].disposed = @ + 1]

Min(a, b) == IF a < b THEN a ELSE b

Max(a, b) == IF a > b THEN a ELSE b

Sign(d) == IF d > 0 THEN 1 ELSE IF d < 0 THEN 0 - 1 ELSE 0

\* ------------------------------------------------------------------------
\* Placement searches
\* ------------------------------------------------------------------------

\* The loop of findSafeVehicleSpawnPosition from candidate i on: a candidate
\* whose horizontal cast hits a BUILDING is skipped; the first of the others
\* whose downward cast hits GROUND is returned; else playerPos.
RECURSIVE SpawnSearch(_, _)
SpawnSearch(p, i) ==
  IF i > Len(spawnOffsets) THEN p
  ELSE IF spawnHit[i] = "BUILDING" THEN SpawnSearch(p, i + 1)
  ELSE IF spawnDownHit[i] = "GROUND" THEN VecAdd(p, spawnOffsets[i])
  ELSE SpawnSearch(p, i + 1)

\* findSafeVehicleSpawnPosition without the downward cast: the first candidate
\* no building blocks.
RECURSIVE SpawnSearchNoGround(_, _)
SpawnSearchNoGround(p, i) ==
  IF i > Len(spawnOffsets) THEN p
  ELSE IF spawnHit[i] = "BUILDING" THEN SpawnSearchNoGround(p, i + 1)
  ELSE VecAdd(p, spawnOffsets[i])

findSafeVehicleSpawnPosition_NoGroundCheck(p) ==
  IF ~worldReady THEN VecAdd(p, spawnOffsets[1]) ELSE SpawnSearchNoGround(p, 1)

findSafeVehicleSpawnPosition(p) ==
  IF ~worldReady THEN VecAdd(p, spawnOffsets[1]) ELSE SpawnSearch(p, 1)

\* The loop of findSafeExitPosition from candidate i on: a candidate whose
\* horizontal cast hits a BUILDING is skipped; the first of the others is
\* returned; else vehiclePos.  No downward cast is made.
RECURSIVE ExitSearch(_, _)
ExitSearch(p, i) ==
  IF i > Len(exitOffsets) THEN p
  ELSE IF exitHit[i] = "BUILDING" THEN ExitSearch(p, i + 1)
  ELSE VecAdd(p, exitOffsets[i])

findSafeExitPosition(p) ==
  IF ~worldReady THEN p ELSE ExitSearch(p, 1)

\* ------------------------------------------------------------------------
\* VehicleManager operations
\* ------------------------------------------------------------------------

managerVars ==
  <<vehicle, isInVehicle, vehicleSpawned, currentVehicleTier, awaitingVehicle,
    awaitingVehicleTier, vehiclesToCleanup>>

objectVars == <<numVehicles, vehicles>>

playerVars == <<playerPos>>

worldVars == <<worldReady, spawnHit, spawnDownHit, exitHit, exitDownHit>>

exitResult == <<lastExitPos, lastExitFrom, lastExited>>

\* The record of the step just taken: the operation, what checkTierProgression
\* returned (NullTier when it did not run), the dt of update (0 when it did
\* not run) and the vehicles it disposed.
Record(op, check, dt, gone) ==
  /\ lastOp' = op
  /\ lastCheck' = check
  /\ lastDt' = dt
  /\ lastDisposed' = gone

\* exitVehicle did not run in this step.
NoExit ==
  /\ lastExitPos' = NoPos
  /\ lastExitFrom' = NoPos
  /\ lastExited' = NoVehicle

\* checkTierProgression without the early return while a vehicle is awaiting.
checkTierProgression_NoOfferGuard(s) ==
  LET effectiveTier ==
        IF isInVehicle THEN currentVehicleTier
        ELSE IF vehicleSpawned THEN currentVehicleTier ELSE "FOOT"
  IN  IF effectiveTier = "FOOT" \/ effectiveTier = NullTier
        THEN (IF s >= minScore("BIKE") THEN "BIKE" ELSE NullTier)
      ELSE IF effectiveTier = "BIKE"
        THEN (IF s >= minScore("MOTO") THEN "MOTO" ELSE NullTier)
      ELSE IF effectiveTier = "MOTO"
        THEN (IF s >= minScore("SEDAN") THEN "SEDAN" ELSE NullTier)
      ELSE IF effectiveTier = "SEDAN"
        THEN (IF s >= minScore("TRUCK") THEN "TRUCK" ELSE NullTier)
      ELSE NullTier

\* checkTierProgression that returns the highest tier whose threshold the
\* score has reached.
checkTierProgression_HighestReached(s) ==
  IF awaitingVehicle # NoVehicle THEN NullTier
  ELSE
    LET effectiveTier ==
          IF isInVehicle THEN currentVehicleTier
          ELSE IF vehicleSpawned THEN currentVehicleTier ELSE "FOOT"
        rank == IF effectiveTier = NullTier THEN 0 ELSE TierRank(effectiveTier)
        reached == {i \in 2..Len(Tiers) : i - 1 > rank /\ s >= minScore(Tiers[i])}
    IN  IF reached = {} THEN NullTier
        ELSE Tiers[CHOOSE i \in reached : \A j \in reached : j <= i]

checkTierProgression(s) ==
  IF awaitingVehicle # NoVehicle THEN NullTier
  ELSE
    LET effectiveTier ==
          IF isInVehicle THEN currentVehicleTier
          ELSE IF vehicleSpawned THEN currentVehicleTier ELSE "FOOT"
    IN  IF effectiveTier = "FOOT" \/ effectiveTier = NullTier
          THEN (IF s >= minScore("BIKE") THEN "BIKE" ELSE NullTier)
        ELSE IF effectiveTier = "BIKE"
          THEN (IF s >= minScore("MOTO") THEN "MOTO" ELSE NullTier)
        ELSE IF effectiveTier = "MOTO"
          THEN (IF s >= minScore("SEDAN") THEN "SEDAN" ELSE NullTier)
        ELSE IF effectiveTier = "SEDAN"
          THEN (IF s >= minScore("TRUCK") THEN "TRUCK" ELSE NullTier)
        ELSE NullTier

\* spawnAwaitingVehicle that does not record the tier of the vehicle.
spawnAwaitingVehicle_TierNotRecorded(tier, sourcePos) ==
  IF awaitingVehicle # NoVehicle \/ TIER_VEHICLE_MAP(tier) = "none" \/ ~worldReady
  THEN UNCHANGED <<awaitingVehicle, awaitingVehicleTier, numVehicles, vehicles>>
  ELSE /\ numVehicles < MaxVehicles
       /\ numVehicles' = numVehicles + 1
       /\ vehicles' = [vehicles EXCEPT ![numVehicles + 1] =
            NewVehicle(findSafeVehicleSpawnPosition(sourcePos), sourcePos, FALSE)]
       /\ awaitingVehicle' = numVehicles + 1
       /\ awaitingVehicleTier' = awaitingVehicleTier

\* spawnAwaitingVehicle(tier, sourcePos): returns without effect when a
\* vehicle is already awaiting, the tier has no vehicle type or there is no
\* world.
spawnAwaitingVehicle(tier, sourcePos) ==
  IF awaitingVehicle # NoVehicle \/ TIER_VEHICLE_MAP(tier) = "none" \/ ~worldReady
  THEN UNCHANGED <<awaitingVehicle, awaitingVehicleTier, numVehicles, vehicles>>
  ELSE /\ numVehicles < MaxVehicles
       /\ numVehicles' = numVehicles + 1
       /\ vehicles' = [vehicles EXCEPT ![numVehicles + 1] =
            NewVehicle(findSafeVehicleSpawnPosition(sourcePos), sourcePos, FALSE)]
       /\ awaitingVehicle' = numVehicles + 1
       /\ awaitingVehicleTier' = tier

\* The frame loop's poll: checkTierProgression(player, score) and, on a due
\* tier, spawnAwaitingVehicle(tier, player position).
CheckTierProgression ==
  LET r == checkTierProgression(score) IN
  /\ maxReturned' = IF r = NullTier THEN maxReturned ELSE Max(maxReturned, TierRank(r))
  /\ IF r = NullTier
     THEN UNCHANGED <<awaitingVehicle, awaitingVehicleTier, numVehicles, vehicles>>
     ELSE spawnAwaitingVehicle(r, playerPos)
  /\ Record("checkTierProgression", r, 0, {})
  /\ NoExit
  /\ UNCHANGED besideManager
  /\ UNCHANGED <<vehicle, isInVehicle, vehicleSpawned, currentVehicleTier,
                 vehiclesToCleanup, playerVars, worldVars, score>>

\* spawnAwaitingVehicle called on its own.
SpawnAwaitingVehicle(tier) ==
  /\ awaitingVehicle = NoVehicle
  /\ worldReady
  /\ spawnAwaitingVehicle(tier, playerPos)
  /\ Record("spawnAwaitingVehicle", NullTier, 0, {})
  /\ NoExit
  /\ UNCHANGED besideManager
  /\ UNCHANGED <<vehicle, isInVehicle, vehicleSpawned, currentVehicleTier,
                 vehiclesToCleanup, playerVars, worldVars, score, maxReturned>>

\* spawnVehicle(tier, player): returns without effect when a vehicle is
\* already spawned, the tier has no vehicle type or there is no world.
spawnVehicle(tier) ==
  IF vehicleSpawned \/ TIER_VEHICLE_MAP(tier) = "none" \/ ~worldReady
  THEN UNCHANGED <<numVehicles, vehicles, vehicle, vehicleSpawned, currentVehicleTier>>
  ELSE /\ numVehicles < MaxVehicles
       /\ numVehicles' = numVehicles + 1
       /\ vehicles' = [vehicles EXCEPT ![numVehicles + 1] =
            NewVehicle(findSafeVehicleSpawnPosition(playerPos), playerPos, TRUE)]
       /\ vehicle' = numVehicles + 1
       /\ vehicleSpawned' = TRUE
       /\ currentVehicleTier' = tier

\* spawnVehicle(tier, player) where it spawns.
SpawnVehicle(tier) ==
  /\ ~vehicleSpawned
  /\ TIER_VEHICLE_MAP(tier) # "none"
  /\ worldReady
  /\ spawnVehicle(tier)
  /\ Record("spawnVehicle", NullTier, 0, {})
  /\ NoExit
  /\ UNCHANGED besideManager
  /\ UNCHANGED <<isInVehicle, awaitingVehicle, awaitingVehicleTier, vehiclesToCleanup,
                 playerVars, worldVars, score, maxReturned>>

\* enterVehicle(player)
EnterVehicle ==
  /\ vehicle # NoVehicle
  /\ ~isInVehicle
  /\ isInVehicle' = TRUE
  /\ Record("enterVehicle", NullTier, 0, {})
  /\ NoExit
  /\ UNCHANGED besideManager
  /\ UNCHANGED <<vehicle, vehicleSpawned, currentVehicleTier, awaitingVehicle,
                 awaitingVehicleTier, vehiclesToCleanup, objectVars, playerVars,
                 worldVars, score, maxReturned>>

\* exitVehicle(player), with vs the Vehicle objects as they are when it runs.
exitVehicle(vs) ==
  /\ lastExitFrom' = vs[vehicle].pos
  /\ lastExitPos' = findSafeExitPosition(vs[vehicle].pos)
  /\ lastExited' = vehicle
  /\ vehicles' = RemoveAndDispose(vs, vehicle)
  /\ vehicle' = NoVehicle
  /\ isInVehicle' = FALSE
  /\ vehicleSpawned' = FALSE
  /\ currentVehicleTier' = NullTier
  /\ UNCHANGED <<awaitingVehicle, awaitingVehicleTier, vehiclesToCleanup>>

ExitVehicle ==
  /\ vehicle # NoVehicle
  /\ exitVehicle(vehicles)
  /\ Record("exitVehicle", NullTier, 0, {vehicle})
  /\ UNCHANGED besideManager
  /\ UNCHANGED <<numVehicles, playerPos, worldVars, score, maxReturned>>

\* The part of switchToAwaitingVehicle that leaves the current vehicle: the
\* queue after it.
QueueOldVehicle ==
  IF isInVehicle /\ vehicle # NoVehicle
  THEN Append(vehiclesToCleanup, [vehicle |-> vehicle, timer |-> CLEANUP_TIMER])
  ELSE vehiclesToCleanup

\* switchToAwaitingVehicle(player)
SwitchToAwaitingVehicle ==
  /\ awaitingVehicle # NoVehicle
  /\ vehiclesToCleanup' = QueueOldVehicle
  /\ vehicle' = awaitingVehicle
  /\ currentVehicleTier' = awaitingVehicleTier
  /\ vehicleSpawned' = TRUE
  /\ awaitingVehicle' = NoVehicle
  /\ awaitingVehicleTier' = NullTier
     \* isInVehicle is cleared with the old vehicle, and set by enterVehicle(player)
     \* on the new one (which returns false only when isInVehicle is still set)
  /\ isInVehicle' = TRUE
  /\ Record("switchToAwaitingVehicle", NullTier, 0, {})
  /\ NoExit
  /\ UNCHANGED besideManager
  /\ UNCHANGED <<objectVars, playerPos, worldVars, score, maxReturned>>

\* updateVehicleCleanup splicing only the entries whose timer fell below zero.
updateVehicleCleanup_Strict(q, dt) ==
  LET dec == [i \in 1..Len(q) |-> [q[i] EXCEPT !.timer = @ - dt]]
  IN  SelectSeq(dec, LAMBDA e : ~(e.timer < 0))

\* updateVehicleCleanup(dt): the queue after it.  Every entry's timer is
\* decremented; the entries whose timer is then <= 0 are spliced out.
updateVehicleCleanup(q, dt) ==
  LET dec == [i \in 1..Len(q) |-> [q[i] EXCEPT !.timer = @ - dt]]
  IN  SelectSeq(dec, LAMBDA e : ~(e.timer <= 0))

\* The entries updateVehicleCleanup(dt) removes from the scene and disposes.
CleanupDue(q, dt) ==
  SelectSeq(q, LAMBDA e : e.timer - dt <= 0)

\* The vehicles of a sequence of queue entries.
EntryVehicles(q) == {q[i].vehicle : i \in 1..Len(q)}

\* scene.remove and dispose() for each entry of q in turn.
RECURSIVE DisposeEach(_, _)
DisposeEach(vs, q) ==
  IF q = <<>> THEN vs
  ELSE DisposeEach(RemoveAndDispose(vs, Head(q).vehicle), Tail(q))

\* The references a cleanup pass walks, as queue entries: those of refs that
\* are set, in order.
Held(refs) ==
  SelectSeq([i \in 1..Len(refs) |-> [vehicle |-> refs[i], timer |-> 0]],
            LAMBDA e : e.vehicle # NoVehicle)

\* update(dt): the glow of the awaiting vehicle is cosmetic and not modelled.
update(dt) ==
  /\ vehiclesToCleanup' = updateVehicleCleanup(vehiclesToCleanup, dt)
  /\ vehicles' = DisposeEach(vehicles, CleanupDue(vehiclesToCleanup, dt))
  /\ Record("update", NullTier, dt, EntryVehicles(CleanupDue(vehiclesToCleanup, dt)))
  /\ NoExit
  /\ UNCHANGED <<vehicle, isInVehicle, vehicleSpawned, currentVehicleTier,
                 awaitingVehicle, awaitingVehicleTier, numVehicles, playerVars,
                 worldVars, score, maxReturned>>

Update(dt) ==
  /\ update(dt)
  /\ UNCHANGED besideManager

\* debugSpawnVehicle: the tier of a vehicle type.
DebugTier(vehicleType) ==
  CASE vehicleType = "BICYCLE" -> "BIKE"
    [] vehicleType = "MOTORBIKE" -> "MOTO"
    [] vehicleType = "SEDAN" -> "SEDAN"
    [] vehicleType = "TRUCK" -> "TRUCK"
    [] OTHER -> NullTier

\* debugSpawnVehicle(vehicleType, player), vehicleType "none" standing for null.
DebugSpawnVehicle(vehicleType) ==
  LET gone == Held(<<vehicle, awaitingVehicle>>)
      cleaned == DisposeEach(vehicles, gone)
      tier == DebugTier(vehicleType)
      \* spawnVehicle(targetTier, player) runs with vehicleSpawned cleared
      spawns == tier # NullTier /\ worldReady
  IN  /\ ~isInVehicle
      /\ awaitingVehicle' = NoVehicle
      /\ awaitingVehicleTier' = IF awaitingVehicle # NoVehicle THEN NullTier ELSE awaitingVehicleTier
      /\ IF spawns
         THEN /\ numVehicles < MaxVehicles
              /\ numVehicles' = numVehicles + 1
              /\ vehicles' = [cleaned EXCEPT ![numVehicles + 1] =
                   NewVehicle(findSafeVehicleSpawnPosition(playerPos), playerPos, TRUE)]
              /\ vehicle' = numVehicles + 1
              /\ vehicleSpawned' = TRUE
              /\ currentVehicleTier' = tier
         ELSE /\ numVehicles' = numVehicles
              /\ vehicles' = cleaned
              /\ vehicle' = NoVehicle
              /\ vehicleSpawned' = FALSE
              /\ currentVehicleTier' = NullTier
      /\ Record("debugSpawnVehicle", NullTier, 0, EntryVehicles(gone))
      /\ NoExit
      /\ maxReturned' = 0
      /\ UNCHANGED besideManager
      /\ UNCHANGED <<isInVehicle, vehiclesToCleanup, playerVars, worldVars, score>>

\* What clear() disposes, in its order: current, awaiting, then the queue.
HeldVehicles == Held(<<vehicle, awaitingVehicle>>) \o vehiclesToCleanup

\* clear(): every vehicle the manager holds is removed from the scene and
\* disposed, the queue is emptied and the flags are reset.
clear ==
  /\ vehicles' = DisposeEach(vehicles, HeldVehicles)
  /\ vehicle' = NoVehicle
  /\ awaitingVehicle' = NoVehicle
  /\ vehiclesToCleanup' = <<>>
  /\ isInVehicle' = FALSE
  /\ vehicleSpawned' = FALSE
  /\ currentVehicleTier' = NullTier
  /\ awaitingVehicleTier' = NullTier

\* A full reset (game start or restart): clear(), and a new run begins with
\* the score at zero.
fullReset ==
  /\ clear
  /\ score' = 0
  /\ maxReturned' = 0
  /\ Record("clear", NullTier, 0, EntryVehicles(HeldVehicles))
  /\ NoExit
  /\ UNCHANGED <<numVehicles, playerVars, worldVars>>

Clear ==
  /\ fullReset
  /\ UNCHANGED besideManager

\* Car.explode(): isDestroyed is set and the destroyed-callback is deferred by
\* a timer; explosions counts the runs of its body.
explode(c) ==
  IF c.isDestroyed THEN c
  ELSE [c EXCEPT !.isDestroyed = TRUE, !.explodeTimer = TRUE, !.explosions = @ + 1]

\* Car.takeDamage(amount); at health 0 the car explodes.
takeDamage(c, amount) ==
  IF c.isDestroyed THEN c
  ELSE LET hit == [c EXCEPT !.health = Max(0, @ - amount)]
       IN  IF hit.health <= 0 THEN explode(hit) ELSE hit

\* takeDamage on the vehicle the avatar rides, destroyed already or not.
TakeDamage(amount) ==
  /\ vehicle # NoVehicle
  /\ isInVehicle
  /\ vehicles' = [vehicles EXCEPT ![vehicle] = takeDamage(@, amount)]
  /\ Record("takeDamage", NullTier, 0, {})
  /\ NoExit
  /\ UNCHANGED besideManager
  /\ UNCHANGED <<managerVars, numVehicles, playerVars, worldVars, score, maxReturned>>

\* The timer of Car.explode fires for vehicle v: its destroyed-callback, when
\* one was registered (spawnVehicle registers () => this.exitVehicle(player)),
\* runs exitVehicle on whatever the manager's current vehicle is by then.
DestroyedTimer(v) ==
  /\ vehicles[v].explodeTimer
  /\ LET fired == [vehicles EXCEPT ![v].explodeTimer = FALSE] IN
     IF vehicles[v].onDestroyedCallback /\ vehicle # NoVehicle
     THEN exitVehicle(fired)
     ELSE /\ vehicles' = fired
          /\ NoExit
          /\ UNCHANGED managerVars
  /\ Record("onDestroyed", NullTier, 0,
            IF vehicles[v].onDestroyedCallback /\ vehicle # NoVehicle THEN {vehicle} ELSE {})
  /\ UNCHANGED besideManager
  /\ UNCHANGED <<numVehicles, playerPos, worldVars, score, maxReturned>>

\* The score handed to the manager never decreases within a run.
ScoreUp ==
  /\ score < MaxScore
  /\ score' = score + 1
  /\ Record("score", NullTier, 0, {})
  /\ NoExit
  /\ UNCHANGED besideManager
  /\ UNCHANGED <<managerVars, objectVars, playerVars, worldVars, maxReturned>>

\* The physics world becomes available.
WorldInit ==
  /\ ~worldReady
  /\ worldReady' = TRUE
  /\ Record("worldInit", NullTier, 0, {})
  /\ NoExit
  /\ UNCHANGED besideManager
  /\ UNCHANGED <<managerVars, objectVars, playerVars, spawnHit, spawnDownHit, exitHit,
                 exitDownHit, score, maxReturned>>

\* ------------------------------------------------------------------------
\* GameEngine
\* ------------------------------------------------------------------------

\* this.player before the first start() (null).
NoPlayer == [spawned |-> FALSE, health |-> 0, active |-> FALSE]

\* spawnPlayer(Tier.FOOT): the avatar on foot.
spawnPlayer == [spawned |-> TRUE, health |-> FootMaxHealth, active |-> TRUE]

\* The stats object of the field initialiser and of resetGame().
ZeroStats == [kills |-> 0, score |-> 0, combo |-> 0, comboTimer |-> 0]

\* What resetGame() and the game loop work on.
Game ==
  [state |-> state, entities |-> entities, player |-> player, stats |-> stats,
   gameOvers |-> gameOvers]

SetGame(g) ==
  /\ state' = g.state
  /\ entities' = g.entities
  /\ player' = g.player
  /\ stats' = g.stats
  /\ gameOvers' = g.gameOvers

\* Array.splice(index, 1)
Splice(seq, index) ==
  [k \in 1..(Len(seq) - 1) |-> IF k < index THEN seq[k] ELSE seq[k + 1]]

\* spawnEntity(type): hp 1 for a pedestrian, 3 for a cop; "none" for no spawn.
spawnEntity(es, type) ==
  IF type = "PEDESTRIAN" THEN Append(es, [type |-> type, health |-> 1])
  ELSE IF type = "COP" THEN Append(es, [type |-> type, health |-> COP_HEALTH])
  ELSE es

\* killEntity leaving the combo timer as it is.
killEntity_KeepTimer(g, index) ==
  [g EXCEPT !.entities = Splice(@, index),
            !.stats = [kills |-> @.kills + 1,
                       score |-> @.score + KILL_BASE + (KILL_BASE * @.combo) \div 10,
                       combo |-> @.combo + 1,
                       comboTimer |-> @.comboTimer]]

\* killEntity assigning the kill's points to the score instead of adding them.
killEntity_ScoreAssigned(g, index) ==
  [g EXCEPT !.entities = Splice(@, index),
            !.stats = [kills |-> @.kills + 1,
                       score |-> KILL_BASE + (KILL_BASE * @.combo) \div 10,
                       combo |-> @.combo + 1,
                       comboTimer |-> COMBO_WINDOW]]

\* killEntity(index): score += 100 * (1 + combo * 0.1), then combo++.
killEntity(g, index) ==
  [g EXCEPT !.entities = Splice(@, index),
            !.stats = [kills |-> @.kills + 1,
                       score |-> @.score + KILL_BASE + (KILL_BASE * @.combo) \div 10,
                       combo |-> @.combo + 1,
                       comboTimer |-> COMBO_WINDOW]]

\* handleGameOver()
handleGameOver(g) == [g EXCEPT !.state = "GAME_OVER", !.gameOvers = @ + 1]

\* The OUCH branch: the avatar loses health, the game ends at 0 or below.
Ouch(g) ==
  LET hurt == [g EXCEPT !.player.health = @ - CONTACT_DAMAGE]
  IN  IF hurt.player.health <= 0 THEN handleGameOver(hurt) ELSE hurt

\* The entity loop, from the last entity down to the first.  fates[i] says
\* where entity i is after its move: in contact with the avatar, behind the
\* camera ("distant"), or neither.  The avatar is on foot (start() spawns it
\* so and nothing changes its tier), so a contact kills only with
\* input.action.
RECURSIVE EntityLoop(_, _, _, _)
EntityLoop(g, i, fates, action) ==
  IF i = 0 THEN g
  ELSE LET fate == IF i <= Len(fates) THEN fates[i] ELSE "none"
           next == IF fate = "contact"
                     THEN (IF action THEN killEntity(g, i) ELSE Ouch(g))
                   ELSE IF fate = "distant"
                     THEN [g EXCEPT !.entities = Splice(@, i)]
                   ELSE g
       IN  EntityLoop(next, i - 1, fates, action)

\* The combo decay resetting the combo only once the timer is below zero.
decayCombo_BelowZero(st) ==
  IF st.comboTimer < 0 THEN [st EXCEPT !.combo = 0] ELSE st

\* if (this.stats.comboTimer === 0) this.stats.combo = 0
decayCombo(st) ==
  IF st.comboTimer = 0 THEN [st EXCEPT !.combo = 0] ELSE st

\* updateGameLogic(dt).  A spawned entity stands far ahead of the avatar, so
\* it has no fate in the tick that spawns it.
updateGameLogic(g, dt, action, spawn, fates) ==
  IF ~g.player.spawned \/ ~g.player.active THEN g
  ELSE LET timed == [g.stats EXCEPT !.comboTimer = Max(0, @ - dt)]
           decayed == [g EXCEPT !.stats = decayCombo(timed),
                                !.entities = spawnEntity(@, spawn)]
       IN  EntityLoop(decayed, Len(decayed.entities), fates, action)

\* resetGame()
resetGame(g) ==
  [g EXCEPT !.entities = <<>>, !.stats = ZeroStats, !.player = spawnPlayer]

\* The kill history after a tick of dt with killsNow kills.
Killed(dt, killsNow) ==
  /\ sinceKill' = IF killsNow > 0 THEN 0 ELSE Min(sinceKill + dt, COMBO_WINDOW)
  /\ chain' = IF killsNow > 0
              THEN (IF sinceKill + dt < COMBO_WINDOW THEN chain ELSE 0) + killsNow
              ELSE chain
  /\ spaced' = IF killsNow > 0
               THEN /\ killsNow = 1
                    /\ sinceKill + dt > 0
                    /\ sinceKill + dt < COMBO_WINDOW => spaced
               ELSE spaced

SpawnTypes == {"none", "PEDESTRIAN", "COP"}

Fates == {"none", "contact", "distant"}

\* start(): returns at once while playing; otherwise resets the game and runs
\* animate(), which requests a frame and runs the first tick with the time
\* elapsed since start() took lastTime, none in the model's time unit.
start(spawn) ==
  /\ state # "PLAYING"
  /\ frames < MaxFrames
  /\ SetGame(updateGameLogic(resetGame([Game EXCEPT !.state = "PLAYING", !.gameOvers = 0]),
                             0, FALSE, spawn, <<>>))
  /\ animationId' = TRUE
  /\ frames' = frames + 1
  /\ sinceKill' = COMBO_WINDOW
  /\ chain' = 0
  /\ spaced' = TRUE

Start(spawn) ==
  /\ start(spawn)
  /\ UNCHANGED besideEngine

\* stop()
stop ==
  /\ state' = "PAUSED"
  /\ animationId' = FALSE
  /\ frames' = IF animationId /\ frames > 0 THEN frames - 1 ELSE frames
  /\ UNCHANGED <<entities, player, stats, sinceKill, chain, spaced, gameOvers>>

Stop ==
  /\ stop
  /\ UNCHANGED besideEngine

\* animate, run by a requested frame: nothing unless playing; otherwise the
\* next frame is requested and one tick of dt <= MAX_FRAME_DT runs.  Ticks
\* that would take the kill count past maxKills are left out.
animate(dt, action, spawn, fates, maxKills) ==
  /\ frames > 0
  /\ IF state # "PLAYING"
     THEN /\ frames' = frames - 1
          /\ UNCHANGED <<state, animationId, entities, player, stats, sinceKill, chain,
                         spaced, gameOvers>>
     ELSE LET after == updateGameLogic(Game, dt, action, spawn, fates)
          IN  /\ Len(fates) = Len(entities)
              /\ Len(entities) = MaxEntities => spawn = "none"
              /\ after.stats.kills <= maxKills
              /\ SetGame(after)
              /\ animationId' = TRUE
              /\ frames' = frames
              /\ Killed(dt, after.stats.kills - stats.kills)

Animate(dt, action, spawn, fates, maxKills) ==
  /\ animate(dt, action, spawn, fates, maxKills)
  /\ UNCHANGED besideEngine

\* The GameEngine as constructed.
InitEngine ==
  /\ state = "MENU"
  /\ animationId = FALSE
  /\ frames = 0
  /\ entities = <<>>
  /\ player = NoPlayer
  /\ stats = ZeroStats
  /\ sinceKill = COMBO_WINDOW
  /\ chain = 0
  /\ spaced = TRUE
  /\ gameOvers = 0

\* ------------------------------------------------------------------------
\* GameEngine: the positions of a tick
\* ------------------------------------------------------------------------

Abs(n) == IF n < 0 THEN 0 - n ELSE n

\* velocity.addScaledVector(toPlayer, 10 * dt); velocity.clampLength(0, 5)
chaseVelocity(v, toPlayer) ==
  Max(0 - CHASE_MAX_SPEED, Min(CHASE_MAX_SPEED, v + Sign(toPlayer) * CHASE_ACCELERATION))

\* One pass of the entity loop, for entity i of t.ents, appending its
\* position accesses to log: the AI and the move of the entity, the contact
\* check against the avatar with the kill or the hit and its knockback, and
\* the cleanup of an entity far behind the camera.
loopPass(t, log, i, action) ==
  LET ent == t.ents[i]
      v == IF ent.behavior = "chase"
           THEN chaseVelocity(ent.v, t.playerZ - ent.z)
           ELSE ent.v
      z == ent.z + v
      moved == [t EXCEPT !.ents[i] = [ent EXCEPT !.v = v, !.z = z]]
      contact == Abs(z - t.playerZ) < CONTACT_RANGE
      fought == IF ~contact THEN moved
                ELSE IF action THEN [moved EXCEPT !.ents = Splice(@, i), !.kills = @ + 1]
                ELSE [moved EXCEPT !.health = @ - CONTACT_DAMAGE,
                                   !.playerZ = @ + KNOCKBACK * Sign(@ - z)]
      distant == z > t.cameraZ + DISTANT_MARGIN
      cleaned == IF distant /\ i <= Len(fought.ents)
                 THEN [fought EXCEPT !.ents = Splice(@, i)]
                 ELSE fought
  IN  [ t |-> cleaned,
        log |-> log \o << [op |-> "move", who |-> i], [op |-> "check", who |-> i] >>
                   \o (IF contact /\ ~action THEN << [op |-> "knockback", who |-> 0] >> ELSE << >>)
                   \o << [op |-> "checkDistant", who |-> i] >> ]

\* for (let i = this.entities.length - 1; i >= 0; i--)
RECURSIVE entityLoop(_, _, _, _)
entityLoop(t, log, i, action) ==
  IF i = 0 THEN [t |-> t, log |-> log]
  ELSE LET pass == loopPass(t, log, i, action)
       IN  entityLoop(pass.t, pass.log, i - 1, action)

\* The positions of updateGameLogic(dt) for dt = 0.1: the avatar moves by
\* its input, the camera closes half of its distance to its place behind
\* the avatar ("* 5 * dt"), then the entity loop runs.
trackTick(t, dir, action) ==
  LET playerZ == t.playerZ + dir * PLAYER_SPEED
      cameraZ == t.cameraZ + (playerZ + CAMERA_OFFSET - t.cameraZ) \div 2
      ready == [t EXCEPT !.playerZ = playerZ, !.cameraZ = cameraZ, !.ticks = @ + 1]
  IN  entityLoop(ready, << [op |-> "move", who |-> 0] >>, Len(t.ents), action)

\* A tick of the running game.
TrackTick(dir, action) ==
  /\ track.ticks < MaxLoopTicks
  /\ track.health > 0
  /\ LET done == trackTick(track, dir, action)
     IN  /\ track' = done.t
         /\ posLog' = done.log
  /\ UNCHANGED besideLoop

\* Entities near the avatar: chasing cops on either side of it and a
\* pedestrian walking up to it ("Base forward velocity").
NearEntities ==
  { [z |-> 0 - 10, v |-> 0, behavior |-> "chase"],
    [z |-> 12, v |-> 0, behavior |-> "chase"],
    [z |-> 8, v |-> 0 - 2, behavior |-> "chase"],
    [z |-> 0 - 10, v |-> 2, behavior |-> "idle"] }

\* No entity near: the positions as resetGame() leaves them.
NoTrack ==
  /\ track = [playerZ |-> 0, cameraZ |-> CAMERA_OFFSET, health |-> FootMaxHealth,
              kills |-> 0, ticks |-> 0, ents |-> << >>]
  /\ posLog = << >>

\* The avatar on foot in the middle of a run, with up to two entities near.
InitTrack ==
  /\ \E ents \in UNION {[1..n -> NearEntities] : n \in 0..MaxEntities} :
       track = [playerZ |-> 0, cameraZ |-> CAMERA_OFFSET, health |-> FootMaxHealth,
                kills |-> 0, ticks |-> 0, ents |-> ents]
  /\ posLog = << >>

\* ------------------------------------------------------------------------
\* App and GameCanvas
\* ------------------------------------------------------------------------

\* gameActive={gameState === GameState.PLAYING}
GameActiveProp == IF gameState = "PLAYING" THEN "true" ELSE "false"

\* React runs the effects of a render before it handles the next event: a
\* handler of the UI finds the start/stop effect run with the current prop.
EffectsFlushed == gameActive = GameActiveProp

\* startGame, offered by the menu and by the game-over screen.
StartGame ==
  /\ EffectsFlushed
  /\ gameState \in {"MENU", "GAME_OVER"}
  /\ gameState' = "PLAYING"
  /\ fromPause' = FALSE
  /\ appOp' = "startGame"
  /\ UNCHANGED <<gameActive, held>>
  /\ UNCHANGED <<engineVars, besideApp>>

\* togglePause
TogglePause ==
  /\ EffectsFlushed
  /\ gameState \in {"PLAYING", "PAUSED"}
  /\ gameState' = IF gameState = "PLAYING" THEN "PAUSED" ELSE "PLAYING"
  /\ fromPause' = (gameState = "PAUSED")
  /\ appOp' = "togglePause"
  /\ UNCHANGED <<gameActive, held>>
  /\ UNCHANGED <<engineVars, besideApp>>

\* The start/stop effect of GameCanvas: it runs when gameActive is not what
\* it last ran with, and calls engine.start() or engine.stop().
startStopEffect(spawn) ==
  /\ gameActive # GameActiveProp
  /\ gameActive' = GameActiveProp
  /\ IF gameState = "PLAYING"
     THEN /\ IF state = "PLAYING" THEN UNCHANGED engineVars ELSE start(spawn)
          /\ held' = "no"
          /\ appOp' = IF fromPause /\ held = "pause" THEN "resume" ELSE "start"
     ELSE /\ stop
          /\ held' = IF gameState = "PAUSED" /\ state = "PLAYING" THEN "pause" ELSE "halt"
          /\ appOp' = IF gameState = "PAUSED" /\ state = "PLAYING" THEN "pause" ELSE "halt"
  /\ UNCHANGED <<gameState, fromPause>>

StartStopEffect(spawn) ==
  /\ startStopEffect(spawn)
  /\ UNCHANGED besideApp

\* What the App and the engine leave alone beside the VehicleManager.
besideSession == <<copVars, rampageVars, moveVars, loopVars, callVars, audioVars, preloadVars, bufferVars, noteVars, councilVars>>

\* The effect with an engine that owns a VehicleManager: the reset of
\* start() is a full reset, clear() on the manager.
SessionEffect ==
  /\ startStopEffect("none")
  /\ IF gameState = "PLAYING" /\ state # "PLAYING" THEN fullReset ELSE UNCHANGED vmVars
  /\ UNCHANGED besideSession

\* A frame of that engine: nothing unless playing; otherwise the next frame
\* is requested and the tick runs the manager's update(dt).  over: the
\* avatar's health reaches 0 in this tick, handleGameOver() runs and calls
\* the App's handleGameOver.
Tick(dt, over) ==
  /\ frames > 0
  /\ IF state # "PLAYING"
     THEN /\ frames' = frames - 1
          /\ UNCHANGED <<state, animationId, gameState>>
          /\ UNCHANGED vmVars
     ELSE /\ update(dt)
          /\ state' = IF over THEN "GAME_OVER" ELSE state
          /\ gameState' = IF over THEN "GAME_OVER" ELSE gameState
          /\ animationId' = TRUE
          /\ frames' = frames
  /\ appOp' = "tick"
  /\ UNCHANGED <<entities, player, stats, sinceKill, chain, spaced, gameOvers>>
  /\ UNCHANGED <<gameActive, fromPause, held>>
  /\ UNCHANGED besideSession

\* The calls the running game makes on the manager.
Playing(call) ==
  /\ state = "PLAYING"
  /\ call

\* A frame of the engine under the App: handleGameOver() calls onGameOver,
\* the App's handleGameOver, which sets the gameState.
Frame(dt, action, spawn, fates, maxKills) ==
  /\ animate(dt, action, spawn, fates, maxKills)
  /\ gameState' = IF state = "PLAYING" /\ state' = "GAME_OVER" THEN "GAME_OVER"
                  ELSE gameState
  /\ appOp' = "frame"
  /\ UNCHANGED <<gameActive, fromPause, held>>
  /\ UNCHANGED besideApp

\* The App as mounted: the menu, the effect not yet run with the engine.
InitApp ==
  /\ gameState = "MENU"
  /\ gameActive = "none"
  /\ fromPause = FALSE
  /\ held = "no"
  /\ appOp = "new"

\* ------------------------------------------------------------------------
\* Cop
\* ------------------------------------------------------------------------

\* Positions the model moves a cop over: a small grid on the ground plane.
Coords == (0 - MaxCoord)..MaxCoord

\* The position handed to the constructor (above the ground).
CopStart == <<0, 1, 0>>

\* Amounts handed to Cop.takeDamage.
CopDamageAmounts == {0, 1, 2}

\* Targets handed to setChaseTarget (the avatar's position, off the ground).
ChaseTargets == {<<1, 1, 0>>, <<-1, 2, 1>>}

\* The Cop as constructed: the Yuka vehicle and the rigid body at the given
\* position, the THREE.Group at its default, the model still loading.
\*   hideTimers: pending timers of die(); deaths: runs of die();
\*   managed: the Yuka vehicle is in the entity manager.
NewCop ==
  [ isDead |-> FALSE, health |-> COP_START_HEALTH, modelLoaded |-> FALSE,
    maxSpeed |-> CHASE_SPEED, steering |-> <<>>, yukaPosition |-> CopStart,
    managed |-> TRUE,
    translation |-> CopStart, nextTranslation |-> CopStart,
    position |-> <<0, 0, 0>>, visible |-> TRUE,
    hideTimers |-> 0, deaths |-> 0 ]

\* setChaseTarget without the early return of a dead cop.
setChaseTarget_NoDeadGuard(c, target) ==
  [c EXCEPT !.steering =
     << [kind |-> "seek", weight |-> SEEK_WEIGHT,
         target |-> <<target[1], 0, target[3]>>],
        [kind |-> "separation", weight |-> SEPARATION_WEIGHT, target |-> NoPos],
        [kind |-> "obstacleAvoidance", weight |-> OBSTACLE_WEIGHT, target |-> NoPos] >>]

\* setChaseTarget that adds its behaviors without clearing the list first.
setChaseTarget_NoClear(c, target) ==
  IF c.isDead THEN c
  ELSE [c EXCEPT !.steering = @ \o
          << [kind |-> "seek", weight |-> SEEK_WEIGHT,
              target |-> <<target[1], 0, target[3]>>],
             [kind |-> "separation", weight |-> SEPARATION_WEIGHT, target |-> NoPos],
             [kind |-> "obstacleAvoidance", weight |-> OBSTACLE_WEIGHT, target |-> NoPos] >>]

\* setChaseTarget(target)
setChaseTarget(c, target) ==
  IF c.isDead THEN c
  ELSE [c EXCEPT !.steering =
          << [kind |-> "seek", weight |-> SEEK_WEIGHT,
              target |-> <<target[1], 0, target[3]>>],
             [kind |-> "separation", weight |-> SEPARATION_WEIGHT, target |-> NoPos],
             [kind |-> "obstacleAvoidance", weight |-> OBSTACLE_WEIGHT, target |-> NoPos] >>]

\* die()
die(c) ==
  [c EXCEPT !.isDead = TRUE, !.maxSpeed = 0, !.steering = <<>>,
            !.hideTimers = @ + 1, !.deaths = @ + 1]

\* Cop.takeDamage without the early return of a dead cop.
copTakeDamage_NoDeadGuard(c, amount) ==
  LET hit == [c EXCEPT !.health = @ - amount]
  IN  IF hit.health <= 0 THEN die(hit) ELSE hit

\* Cop.takeDamage(amount)
copTakeDamage(c, amount) ==
  IF c.isDead THEN c
  ELSE LET hit == [c EXCEPT !.health = @ - amount]
       IN  IF hit.health <= 0 THEN die(hit) ELSE hit

\* The movement Cop.update asks for: from the body to the Yuka position.
CopMovement(c) ==
  <<c.yukaPosition[1] - c.translation[1], 0, c.yukaPosition[3] - c.translation[3]>>

\* What computeColliderMovement can return for a movement: all of it, none
\* of it, or its part along one axis (sliding along an obstacle).
Corrections(movement) ==
  {movement, <<0, 0, 0>>, <<movement[1], 0, 0>>, <<0, 0, movement[3]>>}

\* Cop.update that does not wait for the model.
copUpdate_NoModelGuard(c, corrected) ==
  IF c.isDead THEN c
  ELSE LET newPosition ==
             <<c.translation[1] + corrected[1], 0, c.translation[3] + corrected[3]>>
       IN  [c EXCEPT !.nextTranslation = newPosition,
                     !.position = newPosition,
                     !.yukaPosition = newPosition]

\* Cop.update(deltaTime), corrected being what computeColliderMovement returns.
copUpdate(c, corrected) ==
  IF ~c.modelLoaded THEN c
  ELSE IF c.isDead THEN c
  ELSE LET newPosition ==
             <<c.translation[1] + corrected[1], 0, c.translation[3] + corrected[3]>>
       IN  [c EXCEPT !.nextTranslation = newPosition,
                     !.position = newPosition,
                     !.yukaPosition = newPosition]

\* loadModel() finishes, with the model or with the fallback mesh.
CopModelLoaded ==
  /\ ~cop.modelLoaded
  /\ cop' = [cop EXCEPT !.modelLoaded = TRUE]
  /\ copOp' = "loadModel"
  /\ UNCHANGED besideCop

CopSetChaseTarget(target) ==
  /\ cop' = setChaseTarget(cop, target)
  /\ copOp' = "setChaseTarget"
  /\ UNCHANGED besideCop

CopTakeDamage(amount) ==
  /\ cop' = copTakeDamage(cop, amount)
  /\ copOp' = "takeDamage"
  /\ UNCHANGED besideCop

CopUpdate(corrected) ==
  /\ corrected \in Corrections(CopMovement(cop))
  /\ cop' = copUpdate(cop, corrected)
  /\ copOp' = "update"
  /\ UNCHANGED besideCop

\* world.step(): the body takes the translation set for it.
CopPhysicsStep ==
  /\ cop' = [cop EXCEPT !.translation = cop.nextTranslation]
  /\ copOp' = "step"
  /\ UNCHANGED besideCop

\* The Yuka entity manager's update: a managed vehicle with steering
\* behaviours and a positive maxSpeed moves by d.
YukaUpdate(d) ==
  /\ cop.managed
  /\ cop.maxSpeed > 0
  /\ cop.steering # <<>>
  /\ cop.yukaPosition[1] + d[1] \in Coords
  /\ cop.yukaPosition[3] + d[3] \in Coords
  /\ cop' = [cop EXCEPT !.yukaPosition = <<@[1] + d[1], @[2], @[3] + d[3]>>]
  /\ copOp' = "yuka"
  /\ UNCHANGED besideCop

\* The timer set by die() fires.
CopHideTimer ==
  /\ cop.hideTimers > 0
  /\ cop' = [cop EXCEPT !.visible = FALSE, !.hideTimers = @ - 1]
  /\ copOp' = "hideTimer"
  /\ UNCHANGED besideCop

\* dispose()
CopDispose ==
  /\ cop' = [cop EXCEPT !.managed = FALSE]
  /\ copOp' = "dispose"
  /\ UNCHANGED besideCop

InitCop ==
  /\ cop = NewCop
  /\ copOp = "new"

YukaSteps == {<<1, 0, 0>>, <<-1, 0, 0>>, <<0, 0, 1>>, <<0, 0, -1>>, <<1, 0, 1>>}

CopMoves == {<<x, 0, z>> : x \in (0 - 2 * MaxCoord)..(2 * MaxCoord), z \in (0 - 2 * MaxCoord)..(2 * MaxCoord)}

NextCop ==
  \/ CopModelLoaded
  \/ \E target \in ChaseTargets : CopSetChaseTarget(target)
  \/ \E amount \in CopDamageAmounts : CopTakeDamage(amount)
  \/ \E corrected \in CopMoves : CopUpdate(corrected)
  \/ CopPhysicsStep
  \/ \E d \in YukaSteps : YukaUpdate(d)
  \/ CopHideTimer
  \/ CopDispose

\* ------------------------------------------------------------------------
\* Collision groups and movement resolution
\* ------------------------------------------------------------------------

\* a & b and a | b on non-negative integers.
RECURSIVE BitAnd(_, _)
BitAnd(a, b) ==
  IF a = 0 \/ b = 0 THEN 0
  ELSE (a % 2) * (b % 2) + 2 * BitAnd(a \div 2, b \div 2)

RECURSIVE BitOr(_, _)
BitOr(a, b) ==
  IF a = 0 THEN b
  ELSE IF b = 0 THEN a
  ELSE Max(a % 2, b % 2) + 2 * BitOr(a \div 2, b \div 2)

\* a << 16 on 32 bits: the low 16 bits of a move up, bit 15 becomes the sign.
ShiftLeft16(a) ==
  LET low == a % 65536
  IN  IF low >= 32768 THEN (low - 65536) * 65536 ELSE low * 65536

\* "Format: (filter << 16) | membership"
FilterOf(groups) == groups \div 65536

MembershipOf(groups) == groups % 65536

\* The categories of the code and of the architecture notes.
Categories == {GROUND, PLAYER, PEDESTRIAN, COP, DEBRIS, PROJECTILE, BUILDING, VEHICLE}

\* The Cop's collisionGroups = (filter << 16) | membership, with
\* membership = 0x0008 and filter = 0x0001 | 0x0008.
copCollisionGroups == BitOr(ShiftLeft16(BitOr(GROUND, COP)), COP)

\* The Car's movement filter taken from its collider's groups.
movementCollisionFilter_OfCollider == CAR_COLLIDER_GROUPS

\* Car.movementCollisionFilter = (GROUND | BUILDING) << 16 | VEHICLE
movementCollisionFilter == BitOr(ShiftLeft16(BitOr(GROUND, BUILDING)), VEHICLE)

\* A movement query with these groups is deflected by an obstacle of this
\* membership: the membership intersects the filter.
Deflects(groups, membership) == BitAnd(FilterOf(groups), membership) # 0

Street == (0 - MaxStreet)..MaxStreet

\* computeColliderMovement along the street: the part of the movement d
\* from cell x that stops in front of the first blocked cell.
RECURSIVE computeColliderMovement(_, _, _)
computeColliderMovement(x, d, blocked) ==
  IF d = 0 \/ (x + Sign(d)) \in blocked THEN 0
  ELSE Sign(d) + computeColliderMovement(x + Sign(d), d - Sign(d), blocked)

\* The cells that deflect a query with these groups: the standing obstacles
\* and the bodies of the cops in others, where they are now.
BlockedCells(groups, others) ==
  {x \in Street : Deflects(groups, obstacles[x])}
    \cup {squad[j].translation[1] : j \in {k \in others : Deflects(groups, COP)}}

\* A cop of the squad as constructed on the ground at cell x.
CopAt(x) ==
  [NewCop EXCEPT !.yukaPosition = <<x, 0, 0>>, !.translation = <<x, 0, 0>>,
                 !.nextTranslation = <<x, 0, 0>>]

SquadStart == [i \in 1..SquadSize |-> CopAt(2 * i - 3)]

\* The target the squad chases: the avatar in the middle of the street.
SquadTarget == <<0, 1, 0>>

\* The Car before createPhysicsBody.
\* Along the street the fields translation, nextTranslation and position
\* hold x, and the fields ending in Y the height in tenths.
NewRider ==
  [rigidBody |-> FALSE, isDestroyed |-> FALSE, translation |-> 0,
   nextTranslation |-> 0, position |-> 0,
   translationY |-> 0, nextTranslationY |-> 0, positionY |-> 0]

\* Heights a Car's body is created at: the avatar's (on the ground), the
\* height the Car rests at, and above it.
SpawnHeights == {0, KEEP_ABOVE_GROUND, MaxHeight}

\* createPhysicsBody(world, position)
createPhysicsBody(r, x, y) ==
  [r EXCEPT !.rigidBody = TRUE, !.translation = x, !.nextTranslation = x, !.position = x,
            !.translationY = y, !.nextTranslationY = y, !.positionY = y]

\* The downward parts computedMovement() can return for the desired
\* -0.1 * deltaTime: all of it, or none where the ground holds the Car.
Falls == {0, 0 - GROUNDING}

\* Car.update that commits the desired movement, not the corrected one.
carUpdate_Uncorrected(r, move, fall, blocked) ==
  IF ~r.rigidBody \/ r.isDestroyed THEN r
  ELSE [r EXCEPT !.nextTranslation = r.translation + move,
                 !.position = r.translation + move,
                 !.nextTranslationY = Max(KEEP_ABOVE_GROUND, r.translationY + fall),
                 !.positionY = Max(KEEP_ABOVE_GROUND, r.translationY + fall)]

\* Car.update(deltaTime) with a movement of move cells, blocked being the
\* cells that deflect a query with movementCollisionFilter and fall the
\* downward part of the corrected movement.
carUpdate(r, move, fall, blocked) ==
  IF ~r.rigidBody \/ r.isDestroyed THEN r
  ELSE LET corrected == computeColliderMovement(r.translation, move, blocked)
       IN  [r EXCEPT !.nextTranslation = r.translation + corrected,
                     !.position = r.translation + corrected,
                     !.nextTranslationY = Max(KEEP_ABOVE_GROUND, r.translationY + fall),
                     !.positionY = Max(KEEP_ABOVE_GROUND, r.translationY + fall)]

SquadModelLoaded(i) ==
  /\ ~squad[i].modelLoaded
  /\ squad' = [squad EXCEPT ![i].modelLoaded = TRUE]
  /\ moveOp' = [op |-> "loadModel", who |-> i, move |-> 0, corrected |-> 0, fall |-> 0]
  /\ UNCHANGED <<rider, obstacles>>
  /\ UNCHANGED besideMovement

SquadSetChaseTarget(i) ==
  /\ squad' = [squad EXCEPT ![i] = setChaseTarget(@, SquadTarget)]
  /\ moveOp' = [op |-> "setChaseTarget", who |-> i, move |-> 0, corrected |-> 0, fall |-> 0]
  /\ UNCHANGED <<rider, obstacles>>
  /\ UNCHANGED besideMovement

\* The Yuka entity manager moves the vehicle of cop i by d cells.
SquadYuka(i, d) ==
  /\ squad[i].managed
  /\ squad[i].maxSpeed > 0
  /\ squad[i].steering # <<>>
  /\ squad[i].yukaPosition[1] + d \in Street
  /\ squad' = [squad EXCEPT ![i].yukaPosition[1] = @ + d]
  /\ moveOp' = [op |-> "yuka", who |-> i, move |-> d, corrected |-> 0, fall |-> 0]
  /\ UNCHANGED <<rider, obstacles>>
  /\ UNCHANGED besideMovement

\* Cop.update of cop i: the query uses the collider's own groups.
squadUpdate(i) ==
  /\ LET blocked == BlockedCells(copCollisionGroups, (1..SquadSize) \ {i})
         move == CopMovement(squad[i])[1]
         corrected == computeColliderMovement(squad[i].translation[1], move, blocked)
     IN  /\ squad' = [squad EXCEPT ![i] = copUpdate(@, <<corrected, 0, 0>>)]
         /\ moveOp' = [op |-> "copUpdate", who |-> i, move |-> move,
                       corrected |-> corrected, fall |-> 0]
  /\ UNCHANGED <<rider, obstacles>>

SquadUpdate(i) ==
  /\ squadUpdate(i)
  /\ UNCHANGED besideMovement

RiderCreatePhysicsBody(y) ==
  /\ ~rider.rigidBody
  /\ rider' = createPhysicsBody(rider, 0, y)
  /\ moveOp' = [op |-> "createPhysicsBody", who |-> 0, move |-> 0, corrected |-> 0, fall |-> 0]
  /\ UNCHANGED <<squad, obstacles>>
  /\ UNCHANGED besideMovement

\* Car.update with the input to the left, to the right or released.
riderUpdate(move, fall) ==
  /\ rider.translation + move \in Street
  /\ LET blocked == BlockedCells(movementCollisionFilter, 1..SquadSize)
     IN  /\ rider' = carUpdate(rider, move, fall, blocked)
         /\ moveOp' = [op |-> "carUpdate", who |-> 0, move |-> move,
                       corrected |-> computeColliderMovement(rider.translation, move, blocked),
                       fall |-> fall]
  /\ UNCHANGED <<squad, obstacles>>

RiderUpdate(move, fall) ==
  /\ riderUpdate(move, fall)
  /\ UNCHANGED besideMovement

\* world.step(): every kinematic body takes the translation set for it.
WorldStep ==
  /\ squad' = [i \in 1..SquadSize |-> [squad[i] EXCEPT !.translation = squad[i].nextTranslation]]
  /\ rider' = [rider EXCEPT !.translation = rider.nextTranslation,
                            !.translationY = rider.nextTranslationY]
  /\ moveOp' = [op |-> "step", who |-> 0, move |-> 0, corrected |-> 0, fall |-> 0]
  /\ UNCHANGED obstacles
  /\ UNCHANGED besideMovement

NoEarly == early = [car |-> FALSE, cop |-> {}, spawnVehicle |-> {}, spawnAwaitingVehicle |-> {}]

InitMovement ==
  /\ squad = SquadStart
  /\ rider = NewRider
  /\ moveOp = [op |-> "new", who |-> 0, move |-> 0, corrected |-> 0, fall |-> 0]

\* Nothing stands on the street.
EmptyStreet == obstacles = [x \in Street |-> 0]

\* What can stand at the end of the street.
ObstacleKinds == {0, BUILDING, PEDESTRIAN, COP, VEHICLE}

\* A street with something or nothing at its far end.
StreetLayouts ==
  {[x \in Street |-> IF x = MaxStreet THEN a ELSE 0] : a \in ObstacleKinds}

\* ------------------------------------------------------------------------
\* Engine: the Rampage Dimension
\* ------------------------------------------------------------------------

\* What the Engine's update loop works on.
Rampage ==
  [rampageTimeScale |-> rampageTimeScale, hitStopTimer |-> hitStopTimer,
   inRampageMode |-> inRampageMode, rampageKills |-> rampageKills,
   rampageTime |-> rampageTime, comboCount |-> comboCount,
   comboTimer |-> comboTimer, comboScore |-> comboScore, comboKills |-> comboKills,
   entries |-> entries, zeroSinceEntry |-> zeroSinceEntry]

SetRampage(e) ==
  /\ rampageTimeScale' = e.rampageTimeScale
  /\ hitStopTimer' = e.hitStopTimer
  /\ inRampageMode' = e.inRampageMode
  /\ rampageKills' = e.rampageKills
  /\ rampageTime' = e.rampageTime
  /\ comboCount' = e.comboCount
  /\ comboTimer' = e.comboTimer
  /\ comboScore' = e.comboScore
  /\ comboKills' = e.comboKills
  /\ entries' = e.entries
  /\ zeroSinceEntry' = e.zeroSinceEntry

\* enterRampageDimension(): the hit-stop starts and the world slows down
\* ("When entering rampage dimension: this.rampageTimeScale =
\* this.RAMPAGE_SLOW_MO").
enterRampageDimension(e) ==
  [e EXCEPT !.hitStopTimer = HIT_STOP_DURATION,
            !.rampageTimeScale = RAMPAGE_SLOW_MO,
            !.inRampageMode = TRUE,
            !.entries = @ + 1,
            !.zeroSinceEntry = FALSE]

\* Leaving the rampage with the world left slow.
exitRampageDimension_StaysSlow(e) ==
  [e EXCEPT !.inRampageMode = FALSE,
            !.rampageKills = 0,
            !.rampageTime = 0]

\* Leaving the rampage ("When exiting: this.rampageTimeScale = 1.0"); the
\* kill counter and the age of the state go back to zero for the next one.
exitRampageDimension(e) ==
  [e EXCEPT !.rampageTimeScale = FULL_SPEED,
            !.inRampageMode = FALSE,
            !.rampageKills = 0,
            !.rampageTime = 0]

\* One kill: the combo state of a kill; inside the rampage the kill counts
\* towards the cap, which closes the rampage; outside it the rampage opens
\* when the combo count reaches the threshold.
registerKill(e) ==
  LET k == [e EXCEPT !.comboScore = @ + KILL_BASE + (KILL_BASE * e.comboCount) \div 10,
                     !.comboCount = @ + 1,
                     !.comboKills = @ + 1,
                     !.comboTimer = COMBO_WINDOW,
                     !.rampageKills = IF e.inRampageMode THEN @ + 1 ELSE @]
  IN  IF k.inRampageMode
      THEN (IF k.rampageKills >= RAMPAGE_KILL_LIMIT THEN exitRampageDimension(k) ELSE k)
      ELSE IF k.comboCount = COMBO_THRESHOLD THEN enterRampageDimension(k) ELSE k

RECURSIVE registerKills(_, _)
registerKills(e, n) ==
  IF n = 0 THEN e ELSE registerKills(registerKill(e), n - 1)

\* The combo timer running down by d; at zero the combo count is reset.
comboDecay(e, d) ==
  LET t == Max(0, e.comboTimer - d)
  IN  [e EXCEPT !.comboTimer = t,
                !.comboCount = IF t = 0 THEN 0 ELSE @,
                !.zeroSinceEntry = @ \/ t = 0]

\* The age of the Active rampage; at the configured duration it closes.
rampageAge(e, dt) ==
  IF ~e.inRampageMode THEN e
  ELSE LET aged == [e EXCEPT !.rampageTime = @ + dt]
       IN  IF aged.rampageTime >= MaxRampageTime THEN exitRampageDimension(aged) ELSE aged

\* const entityDt = dt * this.rampageTimeScale, in tenths of a time unit.
entityDtOf(e, dt) == dt * e.rampageTimeScale

\* The dt of this.player.update(dt), in tenths of a time unit.
playerDtOf(e, dt) == dt * FULL_SPEED

\* The update loop running the combo timer on the slowed dt of the entities
\* (whole time units of it).
engineUpdate_ComboSlowed(e, dt, kills) ==
  IF e.hitStopTimer > 0
  THEN [e EXCEPT !.hitStopTimer = @ - dt]
  ELSE registerKills(rampageAge(comboDecay(e, entityDtOf(e, dt) \div FULL_SPEED), dt), kills)

\* The update loop freezing the entities only: the combo timer runs on
\* during the hit-stop.
engineUpdate_ComboRunsFrozen(e, dt, kills) ==
  IF e.hitStopTimer > 0
  THEN comboDecay([e EXCEPT !.hitStopTimer = @ - dt], dt)
  ELSE registerKills(rampageAge(comboDecay(e, dt), dt), kills)

\* The update loop: at the top, while the hit-stop timer is positive, the
\* timer runs down and the tick returns; otherwise the combo timer runs at
\* full speed, the rampage ages and the kills of the tick are taken in.
engineUpdate(e, dt, kills) ==
  IF e.hitStopTimer > 0
  THEN [e EXCEPT !.hitStopTimer = @ - dt]
  ELSE registerKills(rampageAge(comboDecay(e, dt), dt), kills)

\* The update loop handing the slowed dt to the avatar too.
appliedDts_PlayerSlowed(e, dt) ==
  IF e.hitStopTimer > 0 THEN <<FALSE, 0, 0>>
  ELSE <<TRUE, entityDtOf(e, dt), entityDtOf(e, dt)>>

\* What a tick hands out: whether the subsystems ran, the dt of the avatar,
\* the dt of the pedestrians and cops.
appliedDts(e, dt) ==
  IF e.hitStopTimer > 0 THEN <<FALSE, 0, 0>>
  ELSE <<TRUE, playerDtOf(e, dt), entityDtOf(e, dt)>>

\* One tick of the Engine: dt and the kills the combat of the tick reports
\* (none in a frozen tick, in which no combat runs).
EngineUpdate(dt, kills) ==
  /\ comboKills + kills <= MaxRunKills
  /\ entries = 0 => comboKills + kills <= MaxCalmKills
  /\ (~inRampageMode /\ entries > 0 /\ zeroSinceEntry) =>
       comboKills + kills <= 2 * MaxCalmKills
  /\ SetRampage(engineUpdate(Rampage, dt, kills))
  /\ rampageOp' = "update"
  /\ tickDt' = dt
  /\ tickRan' = appliedDts(Rampage, dt)[1]
  /\ playerDt' = appliedDts(Rampage, dt)[2]
  /\ entityDt' = appliedDts(Rampage, dt)[3]
  /\ UNCHANGED besideRampage

\* The Engine as constructed.
InitRampage ==
  /\ rampageTimeScale = FULL_SPEED
  /\ hitStopTimer = 0
  /\ inRampageMode = FALSE
  /\ rampageKills = 0
  /\ rampageTime = 0
  /\ comboCount = 0
  /\ comboTimer = 0
  /\ comboScore = 0
  /\ comboKills = 0
  /\ rampageOp = "new"
  /\ tickDt = 0
  /\ tickRan = FALSE
  /\ playerDt = 0
  /\ entityDt = 0
  /\ entries = 0
  /\ zeroSinceEntry = TRUE

\* ------------------------------------------------------------------------
\* AudioManager: engine loops and music
\* ------------------------------------------------------------------------

NoSource == 0

musicVars == <<currentMusic, nextMusic, musicCrossfadeTime, lastMusicCall>>

loopSoundVars == <<playingSound, engineLoop, ended, lastLoopCall>>

\* source.stop()
stopSource(srcs, i) == [srcs EXCEPT ![i].playing = FALSE]

\* startEngineLoop(entityId, soundId): play() hands the fixed instance id
\* engine_<entityId> to playDirect, which creates and starts a looping source
\* and sets it in playingSounds under that id.
StartEngineLoop ==
  /\ IF engineLoop # NoSource
     THEN UNCHANGED <<sources, playingSound, engineLoop>>
     ELSE /\ Len(sources) < MaxSources
          /\ sources' = Append(sources, [kind |-> "loop", playing |-> TRUE, isPlaying |-> FALSE])
          /\ playingSound' = Len(sources) + 1
          /\ engineLoop' = Len(sources) + 1
  /\ lastLoopCall' = "start"
  /\ audioOp' = "startEngineLoop"
  /\ UNCHANGED <<timers, ended, currentMusic, nextMusic, musicCrossfadeTime, lastMusicCall>>
  /\ UNCHANGED besideAudio

\* stop(instanceId, fadeTime) with fadeTime > 0: nothing without an entry of
\* playingSounds under the id; otherwise a timer is set for the entry found.
stop_Fade(pending) ==
  IF playingSound = NoSource THEN pending ELSE pending \cup {playingSound}

\* stopEngineLoop(entityId), fadeTime 0.3
StopEngineLoop ==
  /\ IF engineLoop = NoSource
     THEN UNCHANGED <<timers, engineLoop>>
     ELSE /\ timers' = stop_Fade(timers)
          /\ engineLoop' = NoSource
  /\ lastLoopCall' = "stop"
  /\ audioOp' = "stopEngineLoop"
  /\ UNCHANGED <<sources, playingSound, ended, currentMusic, nextMusic,
                 musicCrossfadeTime, lastMusicCall>>
  /\ UNCHANGED besideAudio

\* The timer of stop() fires: the source it was set for is stopped, and the
\* entry of playingSounds under the instance id is deleted.
SoundFadeTimer(i) ==
  /\ i \in timers
  /\ sources[i].kind = "loop"
  /\ sources' = stopSource(sources, i)
  /\ ended' = IF sources[i].playing THEN ended \cup {i} ELSE ended
  /\ playingSound' = NoSource
  /\ timers' = timers \ {i}
  /\ audioOp' = "soundTimer"
  /\ UNCHANGED <<engineLoop, lastLoopCall, musicVars>>
  /\ UNCHANGED besideAudio

\* source.onended of a stopped source, set by playDirect: the entry of
\* playingSounds under the instance id is deleted.
SourceEnded(i) ==
  /\ i \in ended
  /\ playingSound' = NoSource
  /\ ended' = ended \ {i}
  /\ audioOp' = "ended"
  /\ UNCHANGED <<sources, engineLoop, timers, lastLoopCall, musicVars>>
  /\ UNCHANGED besideAudio

\* playMusic(id, crossfade)
PlayMusic(crossfade) ==
  LET cleared == IF nextMusic # NoSource THEN stopSource(sources, nextMusic) ELSE sources
      new == Len(sources) + 1
      newTrack == [kind |-> "music", playing |-> TRUE, isPlaying |-> TRUE]
      current == currentMusic # NoSource /\ sources[currentMusic].isPlaying
  IN  /\ Len(sources) < MaxSources
      /\ IF crossfade /\ current
         THEN /\ sources' = Append(cleared, newTrack)
              /\ nextMusic' = new
              /\ musicCrossfadeTime' = MUSIC_CROSSFADE_DURATION
              /\ currentMusic' = currentMusic
         ELSE /\ sources' = Append(IF current
                                     THEN [cleared EXCEPT ![currentMusic].playing = FALSE,
                                                          ![currentMusic].isPlaying = FALSE]
                                     ELSE cleared, newTrack)
              /\ nextMusic' = NoSource
              /\ musicCrossfadeTime' = IF nextMusic # NoSource THEN 0 ELSE musicCrossfadeTime
              /\ currentMusic' = new
      /\ lastMusicCall' = "play"
      /\ audioOp' = "playMusic"
      /\ UNCHANGED <<timers, loopSoundVars>>
      /\ UNCHANGED besideAudio

\* stopMusic(), fadeTime 1.0
StopMusic ==
  /\ IF currentMusic = NoSource
     THEN UNCHANGED <<timers, currentMusic>>
     ELSE /\ timers' = timers \cup {currentMusic}
          /\ currentMusic' = NoSource
  /\ lastMusicCall' = "stop"
  /\ audioOp' = "stopMusic"
  /\ UNCHANGED <<sources, nextMusic, musicCrossfadeTime, loopSoundVars>>
  /\ UNCHANGED besideAudio

\* The timer of stopMusic fires: the track it was set for is stopped.
MusicFadeTimer(i) ==
  /\ i \in timers
  /\ sources[i].kind = "music"
  /\ sources' = [sources EXCEPT ![i].playing = FALSE, ![i].isPlaying = FALSE]
  /\ timers' = timers \ {i}
  /\ audioOp' = "musicTimer"
  /\ UNCHANGED <<musicVars, loopSoundVars>>
  /\ UNCHANGED besideAudio

\* update(dt): the crossfade part.
AudioUpdate(dt) ==
  /\ IF musicCrossfadeTime > 0 /\ currentMusic # NoSource /\ nextMusic # NoSource
     THEN /\ musicCrossfadeTime' = musicCrossfadeTime - dt
          /\ IF musicCrossfadeTime - dt <= 0
             THEN /\ sources' = stopSource(sources, currentMusic)
                  /\ currentMusic' = nextMusic
                  /\ nextMusic' = NoSource
             ELSE UNCHANGED <<sources, currentMusic, nextMusic>>
     ELSE UNCHANGED <<sources, currentMusic, nextMusic, musicCrossfadeTime>>
  /\ audioOp' = "update"
  /\ UNCHANGED <<timers, lastMusicCall, loopSoundVars>>
  /\ UNCHANGED besideAudio

\* The AudioManager as constructed.
InitAudio ==
  /\ sources = <<>>
  /\ playingSound = NoSource
  /\ engineLoop = NoSource
  /\ timers = {}
  /\ ended = {}
  /\ currentMusic = NoSource
  /\ nextMusic = NoSource
  /\ musicCrossfadeTime = 0
  /\ lastLoopCall = "none"
  /\ lastMusicCall = "none"
  /\ audioOp = "new"

\* ------------------------------------------------------------------------
\* Preloader
\* ------------------------------------------------------------------------

PreloadCallIds == 1..MaxPreloadCalls

SubPhases == {"loading", "cloning-pedestrians", "cloning-cops", "cloning-vehicles"}

\* preloadAll, phase 1 up to its await: RAPIER.init is started unless it is
\* loaded or its promise exists.
startRapier_NoPromiseGuard(p) ==
  IF ~p.rapierLoaded
  THEN [p EXCEPT !.phase = "physics", !.rapierPromise = "pending",
                 !.rapierStarts = @ + 1]
  ELSE p

startRapier(p) ==
  IF ~p.rapierLoaded /\ p.rapierPromise = "null"
  THEN [p EXCEPT !.phase = "physics", !.rapierPromise = "pending",
                 !.rapierStarts = @ + 1]
  ELSE p

\* preloadAll, phase 2 up to its await
startAssets(p) ==
  IF ~p.assetsLoaded /\ p.assetsPromise = "null"
  THEN [p EXCEPT !.phase = "models", !.assetsPromise = "pending",
                 !.assetsStarts = @ + 1]
  ELSE p

\* preloadAll, its last statement
complete(p) == [p EXCEPT !.phase = "complete", !.progress = PROGRESS_COMPLETE]

\* preloadAll from the end of the await of rapierPromise: the await of
\* assetsPromise is skipped when there is no promise.
afterRapier(p, c) ==
  LET q == startAssets(p)
  IN  IF q.assetsPromise # "null"
      THEN /\ preloader' = q
           /\ preloadCalls' = [preloadCalls EXCEPT ![c] = "awaitAssets"]
      ELSE /\ preloader' = complete(q)
           /\ preloadCalls' = [preloadCalls EXCEPT ![c] = "done"]

\* A call of preloadAll, up to its first await.
PreloadAll(c) ==
  /\ preloadCalls[c] \in {"idle", "done", "failed"}
  /\ preloader.rapierStarts < MaxPreloadCalls
  /\ LET p == startRapier(preloader)
     IN  IF p.rapierPromise # "null"
         THEN /\ preloader' = p
              /\ preloadCalls' = [preloadCalls EXCEPT ![c] = "awaitRapier"]
         ELSE afterRapier(p, c)
  /\ UNCHANGED besidePreloader

\* RAPIER.init() resolves and preloadRapier runs to its end.
RapierReady ==
  /\ preloader.rapierPromise = "pending"
  /\ preloader' = [preloader EXCEPT !.rapierLoaded = TRUE,
                                     !.progress = PHASE_WEIGHT_PHYSICS,
                                     !.rapierPromise = "resolved"]
  /\ UNCHANGED preloadCalls
  /\ UNCHANGED besidePreloader

\* RAPIER.init() rejects: rapierPromise rejects.
RapierFailed ==
  /\ preloader.rapierPromise = "pending"
  /\ preloader' = [preloader EXCEPT !.rapierPromise = "rejected"]
  /\ UNCHANGED preloadCalls
  /\ UNCHANGED besidePreloader

\* A call resumes from its await of rapierPromise.
ResumeAfterRapier(c) ==
  /\ preloadCalls[c] = "awaitRapier"
  /\ \/ /\ preloader.rapierPromise = "resolved"
        /\ afterRapier(preloader, c)
     \/ /\ preloader.rapierPromise = "rejected"
        /\ preloadCalls' = [preloadCalls EXCEPT ![c] = "failed"]
        /\ UNCHANGED preloader
  /\ UNCHANGED besidePreloader

\* The progress the callback of preloadAssets computes.
assetProgress(subPhase, loaded) ==
  PHASE_WEIGHT_PHYSICS +
    CASE subPhase = "loading" -> (loaded * PHASE_WEIGHT_MODELS) \div AssetTotal
      [] subPhase = "cloning-pedestrians" ->
           PHASE_WEIGHT_MODELS + (loaded * (PHASE_WEIGHT_CLONING \div 2)) \div AssetTotal
      [] subPhase = "cloning-cops" ->
           PHASE_WEIGHT_MODELS + PHASE_WEIGHT_CLONING \div 2
             + (loaded * (PHASE_WEIGHT_CLONING \div 4)) \div AssetTotal
      [] subPhase = "cloning-vehicles" ->
           PHASE_WEIGHT_MODELS + (3 * PHASE_WEIGHT_CLONING) \div 4
             + (loaded * (PHASE_WEIGHT_CLONING \div 4)) \div AssetTotal

\* The asset loader reports progress while it loads.
AssetProgress(subPhase, loaded) ==
  /\ preloader.assetsPromise = "pending"
  /\ preloader' = [preloader EXCEPT
                     !.phase = IF subPhase = "loading" THEN "models" ELSE subPhase,
                     !.progress = assetProgress(subPhase, loaded)]
  /\ UNCHANGED preloadCalls
  /\ UNCHANGED besidePreloader

\* assetLoader.preloadAll resolves and preloadAssets runs to its end.
AssetsReady ==
  /\ preloader.assetsPromise = "pending"
  /\ preloader' = [preloader EXCEPT !.assetsLoaded = TRUE,
                                     !.assetsPromise = "resolved"]
  /\ UNCHANGED preloadCalls
  /\ UNCHANGED besidePreloader

\* assetLoader.preloadAll rejects: assetsPromise rejects.
AssetsFailed ==
  /\ preloader.assetsPromise = "pending"
  /\ preloader' = [preloader EXCEPT !.assetsPromise = "rejected"]
  /\ UNCHANGED preloadCalls
  /\ UNCHANGED besidePreloader

\* A call resumes from its await of assetsPromise and completes.
ResumeAfterAssets(c) ==
  /\ preloadCalls[c] = "awaitAssets"
  /\ \/ /\ preloader.assetsPromise = "resolved"
        /\ preloader' = complete(preloader)
        /\ preloadCalls' = [preloadCalls EXCEPT ![c] = "done"]
     \/ /\ preloader.assetsPromise = "rejected"
        /\ preloadCalls' = [preloadCalls EXCEPT ![c] = "failed"]
        /\ UNCHANGED preloader
  /\ UNCHANGED besidePreloader

\* The Preloader as constructed, no call of preloadAll made.
InitPreloader ==
  /\ preloader = [rapierLoaded |-> FALSE, assetsLoaded |-> FALSE,
                  rapierPromise |-> "null", assetsPromise |-> "null",
                  phase |-> "initializing", progress |-> 0,
                  rapierStarts |-> 0, assetsStarts |-> 0]
  /\ preloadCalls = [c \in PreloadCallIds |-> "idle"]

\* ------------------------------------------------------------------------
\* CircularBuffer
\* ------------------------------------------------------------------------

NotConstructed == -1

\* (head + 1) % 0
NaN == -2

\* new CircularBuffer(capacity): a zeroed Float64Array, indices from 0.
CircularBuffer(capacity) ==
  [capacity |-> capacity, buffer |-> [i \in 0..(capacity - 1) |-> 0],
   head |-> 0, count |-> 0]

\* push(value): a write at an index the Float64Array does not have is dropped.
push(b, value) ==
  [b EXCEPT !.buffer = IF b.head \in DOMAIN b.buffer
                         THEN [b.buffer EXCEPT ![b.head] = value] ELSE b.buffer,
            !.head = IF b.capacity = 0 \/ b.head = NaN THEN NaN
                     ELSE (b.head + 1) % b.capacity,
            !.count = IF b.count < b.capacity THEN b.count + 1 ELSE b.count]

\* get length
length(b) == b.count

RECURSIVE sumTo(_, _)
\* The loop of sum(): the total of buffer[0 .. n-1]
sumTo(b, n) == IF n = 0 THEN 0 ELSE sumTo(b, n - 1) + b.buffer[n - 1]

\* sum()
sum(b) == sumTo(b, b.count)

\* average(), as the fraction <<numerator, denominator>>
average(b) == IF b.count > 0 THEN <<sum(b), b.count>> ELSE <<0, 1>>

\* clear()
clearBuffer_KeepHead(b) == [b EXCEPT !.count = 0]

clearBuffer(b) == [b EXCEPT !.head = 0, !.count = 0]

Construct(capacity) ==
  /\ ring.capacity = NotConstructed
  /\ ring' = CircularBuffer(capacity)
  /\ pushed' = <<>>
  /\ UNCHANGED besideBuffer

Push(value) ==
  /\ ring.capacity # NotConstructed
  /\ Len(pushed) < MaxPushes
  /\ ring' = push(ring, value)
  /\ pushed' = Append(pushed, value)
  /\ UNCHANGED besideBuffer

ClearBuffer ==
  /\ ring.capacity # NotConstructed
  /\ ring' = clearBuffer(ring)
  /\ pushed' = <<>>
  /\ UNCHANGED besideBuffer

\* No CircularBuffer constructed yet.
InitBuffer ==
  /\ ring = [capacity |-> NotConstructed, buffer |-> <<>>, head |-> 0, count |-> 0]
  /\ pushed = <<>>

\* ------------------------------------------------------------------------
\* NotificationSystem
\* ------------------------------------------------------------------------

\* The updater addNotification hands to setNotifications.
addNotification_LimitExceeded(prev, n) ==
  Append(IF Len(prev) > NOTIFICATION_LIMIT THEN Tail(prev) ELSE prev, n)

addNotification(prev, n) ==
  Append(IF Len(prev) >= NOTIFICATION_LIMIT THEN Tail(prev) ELSE prev, n)

\* prev.filter(n => n.id !== id)
removeNotification(prev, id) == SelectSeq(prev, LAMBDA n : n.id # id)

\* addNotification(type, message, subtext, combo)
AddNotification(combo) ==
  /\ nextId < MaxNotifications
  /\ notifications' = addNotification(notifications, [id |-> nextId, combo |-> combo])
  /\ nextId' = nextId + 1
  /\ noteTimers' = noteTimers \cup {nextId}
  /\ UNCHANGED besideNotifications

\* The removal timer of a notification fires.
NotificationTimer(id) ==
  /\ id \in noteTimers
  /\ notifications' = removeNotification(notifications, id)
  /\ noteTimers' = noteTimers \ {id}
  /\ UNCHANGED nextId
  /\ UNCHANGED besideNotifications

\* The component as mounted.
InitNotifications ==
  /\ notifications = <<>>
  /\ nextId = 0
  /\ noteTimers = {}

\* ------------------------------------------------------------------------
\* AncestorCouncil
\* ------------------------------------------------------------------------

\* enter()
enter(a) ==
  IF a.isActive THEN a
  ELSE [a EXCEPT !.isActive = TRUE, !.targetOpacity = GHOST_OPACITY,
                 !.currentOpacity = GHOST_OPACITY, !.visible = TRUE,
                 !.debugLineVisible = TRUE]

\* exit()
exit_TargetKept(a) ==
  IF ~a.isActive THEN a
  ELSE [a EXCEPT !.isActive = FALSE, !.debugLineVisible = FALSE]

exit(a) ==
  IF ~a.isActive THEN a
  ELSE [a EXCEPT !.isActive = FALSE, !.targetOpacity = 0, !.debugLineVisible = FALSE]

\* currentOpacity += (targetOpacity - currentOpacity) * Math.min(1, dt * lerpSpeed),
\* dt in hundredths, rounded toward currentOpacity to the millionth.
lerpOpacity(a, dt) ==
  LET lerpSpeed == IF a.isActive THEN LERP_SPEED_ACTIVE ELSE LERP_SPEED_INACTIVE
      t == Min(100, dt * lerpSpeed)
  IN  IF a.targetOpacity >= a.currentOpacity
      THEN a.currentOpacity + ((a.targetOpacity - a.currentOpacity) * t) \div 100
      ELSE a.currentOpacity - ((a.currentOpacity - a.targetOpacity) * t) \div 100

\* update(dt, playerPosition, isMoving): the opacity transition and the
\* hiding of the meshes; the spiral positions and the material opacities it
\* also sets are not part of the state.
councilUpdate(a, dt) ==
  LET b == [a EXCEPT !.currentOpacity = lerpOpacity(a, dt)]
  IN  IF ~b.isActive /\ b.currentOpacity < HIDE_OPACITY
      THEN [b EXCEPT !.visible = FALSE]
      ELSE b

Enter ==
  /\ council' = enter(council)
  /\ UNCHANGED besideCouncil

Exit ==
  /\ council' = exit(council)
  /\ UNCHANGED besideCouncil

CouncilUpdate(dt) ==
  /\ council' = councilUpdate(council, dt)
  /\ UNCHANGED besideCouncil

\* The council as constructed, its meshes loaded hidden.
InitCouncil ==
  council = [isActive |-> FALSE, targetOpacity |-> 0, currentOpacity |-> 0,
             visible |-> FALSE, debugLineVisible |-> FALSE]

\* ------------------------------------------------------------------------
\* Specifications
\* ------------------------------------------------------------------------

SpawnCandidates == 1..Len(spawnOffsets)

ExitCandidates == 1..Len(exitOffsets)

\* The VehicleManager as constructed, no vehicle built yet.
InitManager ==
  /\ vehicle = NoVehicle
  /\ isInVehicle = FALSE
  /\ vehicleSpawned = FALSE
  /\ currentVehicleTier = NullTier
  /\ awaitingVehicle = NoVehicle
  /\ awaitingVehicleTier = NullTier
  /\ vehiclesToCleanup = <<>>
  /\ numVehicles = 0
  /\ vehicles = [v \in 1..MaxVehicles |-> NoObject]
  /\ playerPos = PlayerStart
  /\ score = 0
  /\ lastCheck = NullTier
  /\ lastExitPos = NoPos
  /\ lastExitFrom = NoPos
  /\ lastExited = NoVehicle
  /\ lastDt = 0
  /\ lastDisposed = {}
  /\ lastOp = "init"
  /\ maxReturned = 0

\* An open field: no building around, ground everywhere.
OpenField ==
  /\ spawnHit = [i \in SpawnCandidates |-> "NONE"]
  /\ spawnDownHit = [i \in SpawnCandidates |-> "GROUND"]
  /\ exitHit = [i \in ExitCandidates |-> "NONE"]
  /\ exitDownHit = [i \in ExitCandidates |-> "GROUND"]

Init ==
  /\ InitManager
  /\ InitApp
  /\ NoTrack
  /\ worldReady = FALSE
  /\ OpenField
  /\ InitEngine
  /\ InitCop
  /\ InitRampage
  /\ InitMovement
  /\ NoEarly
  /\ InitCouncil
  /\ InitNotifications
  /\ InitBuffer
  /\ InitPreloader
  /\ InitAudio
  /\ EmptyStreet

Next ==
  \/ CheckTierProgression
  \/ \E tier \in TierSet : SpawnVehicle(tier)
  \/ EnterVehicle
  \/ ExitVehicle
  \/ SwitchToAwaitingVehicle
  \/ \E dt \in 1..MaxDt : Update(dt)
  \/ \E vehicleType \in VehicleTypes \cup {"none"} : DebugSpawnVehicle(vehicleType)
  \/ Clear
  \/ \E amount \in DamageAmounts : TakeDamage(amount)
  \/ \E v \in 1..MaxVehicles : DestroyedTimer(v)
  \/ ScoreUp
  \/ WorldInit

Spec == Init /\ [][Next]_vars

\* The placement searches on every surrounding: the world exists, and either
\* the casts around the avatar or the casts around the vehicle are arbitrary.
InitPlacement ==
  /\ InitManager
  /\ InitApp
  /\ NoTrack
  /\ InitEngine
  /\ InitCop
  /\ InitRampage
  /\ InitMovement
  /\ NoEarly
  /\ InitCouncil
  /\ InitNotifications
  /\ InitBuffer
  /\ InitPreloader
  /\ InitAudio
  /\ EmptyStreet
  /\ worldReady = TRUE
  /\ \/ /\ spawnHit \in [SpawnCandidates -> {"NONE", "BUILDING"}]
        /\ spawnDownHit \in [SpawnCandidates -> {"NONE", "GROUND"}]
        /\ exitHit = [i \in ExitCandidates |-> "NONE"]
        /\ exitDownHit = [i \in ExitCandidates |-> "GROUND"]
     \/ /\ spawnHit = [i \in SpawnCandidates |-> "NONE"]
        /\ spawnDownHit = [i \in SpawnCandidates |-> "GROUND"]
        /\ exitHit \in [ExitCandidates -> {"NONE", "BUILDING", "VEHICLE"}]
        /\ exitDownHit \in [ExitCandidates -> {"NONE", "GROUND", "BUILDING"}]

NextPlacement ==
  \/ SpawnAwaitingVehicle("BIKE")
  \/ SpawnVehicle("BIKE")
  \/ ExitVehicle

SpecPlacement == InitPlacement /\ [][NextPlacement]_vars

FateLists == UNION {[1..n -> Fates] : n \in 0..MaxEntities}

\* The GameEngine under every input: starts, stops, frames of every length
\* up to the cap, with and without the attack key, every spawn, every fate.
NextEngine ==
  \/ \E spawn \in SpawnTypes : Start(spawn)
  \/ Stop
  \/ \E dt \in 0..MAX_FRAME_DT, action \in BOOLEAN, spawn \in SpawnTypes, fates \in FateLists :
       Animate(dt, action, spawn, fates, MaxKills)

SpecEngine == Init /\ [][NextEngine]_vars

\* A killing spree: one run in which the avatar attacks on every frame and
\* pedestrians keep coming.
NextCombo ==
  \/ Start("none")
  \/ \E dt \in 0..MAX_FRAME_DT, spawn \in {"none", "PEDESTRIAN"},
        fates \in UNION {[1..n -> {"none", "contact"}] : n \in 0..MaxEntities} :
       Animate(dt, TRUE, spawn, fates, MaxChain)

SpecCombo == Init /\ [][NextCombo]_vars

\* The game under the App: started, paused, resumed and restarted from the
\* UI, with frames of every fate in between.
NextApp ==
  \/ StartGame
  \/ TogglePause
  \/ \E spawn \in SpawnTypes : StartStopEffect(spawn)
  \/ \E action \in BOOLEAN, spawn \in SpawnTypes, fates \in FateLists :
       Frame(1, action, spawn, fates, MaxAppKills)

SpecApp == Init /\ [][NextApp]_vars

\* The entity loop on every input, from every placing of the near entities.
InitLoop ==
  /\ InitManager
  /\ InitApp
  /\ InitTrack
  /\ worldReady = FALSE
  /\ OpenField
  /\ InitEngine
  /\ InitCop
  /\ InitRampage
  /\ InitMovement
  /\ NoEarly
  /\ InitCouncil
  /\ InitNotifications
  /\ InitBuffer
  /\ InitPreloader
  /\ InitAudio
  /\ EmptyStreet

NextLoop == \E dir \in {0 - 1, 0, 1}, action \in BOOLEAN : TrackTick(dir, action)

SpecLoop == InitLoop /\ [][NextLoop]_vars

\* A session of the game with its vehicles: started and restarted from the
\* UI, ticks of every length that update the manager, the game ending in
\* any of them, and the calls that put a vehicle in the disposal queue.
NextSession ==
  \/ StartGame
  \/ TogglePause
  \/ SessionEffect
  \/ \E dt \in 1..MaxDt, over \in BOOLEAN : Tick(dt, over)
  \/ Playing(WorldInit)
  \/ Playing(ScoreUp)
  \/ Playing(CheckTierProgression)
  \/ Playing(SpawnVehicle("BIKE"))
  \/ Playing(EnterVehicle)
  \/ Playing(SwitchToAwaitingVehicle)

\* Frames that were requested are delivered, and effects that are due run.
SessionFairness ==
  /\ WF_vars(\E dt \in 1..MaxDt, over \in BOOLEAN : Tick(dt, over))
  /\ WF_vars(SessionEffect)

SpecSession == Init /\ [][NextSession]_vars /\ SessionFairness

\* The Engine with the Rampage Dimension under frames of every length up to
\* the cap and every number of kills up to MaxTickKills a tick.
NextRampage == \E dt \in 0..MAX_FRAME_DT, kills \in 0..MaxTickKills : EngineUpdate(dt, kills)

SpecRampage == Init /\ [][NextRampage]_vars

\* checkTierProgression on every input: the manager on foot, with a vehicle
\* of any tier spawned or entered, with or without a vehicle awaiting, and
\* every score up to MaxTierScore.
InitTier ==
  /\ InitApp
  /\ NoTrack
  /\ worldReady = TRUE
  /\ OpenField
  /\ InitEngine
  /\ InitCop
  /\ InitRampage
  /\ InitMovement
  /\ NoEarly
  /\ InitCouncil
  /\ InitNotifications
  /\ InitBuffer
  /\ InitPreloader
  /\ InitAudio
  /\ EmptyStreet
  /\ playerPos = PlayerStart
  /\ score \in 0..MaxTierScore
  /\ vehiclesToCleanup = <<>>
  /\ lastCheck = NullTier
  /\ lastExitPos = NoPos
  /\ lastExitFrom = NoPos
  /\ lastExited = NoVehicle
  /\ lastDt = 0
  /\ lastDisposed = {}
  /\ lastOp = "init"
  /\ maxReturned = 0
  /\ \E spawned \in BOOLEAN, offered \in BOOLEAN :
       LET n == (IF spawned THEN 1 ELSE 0) + (IF offered THEN 1 ELSE 0)
           spot == findSafeVehicleSpawnPosition(PlayerStart)
       IN  /\ numVehicles = n
           /\ vehicleSpawned = spawned
           /\ vehicle = IF spawned THEN 1 ELSE NoVehicle
           /\ awaitingVehicle = IF offered THEN n ELSE NoVehicle
           /\ vehicles = [v \in 1..MaxVehicles |->
                 IF spawned /\ v = 1 THEN NewVehicle(spot, PlayerStart, TRUE)
                 ELSE IF offered /\ v = n THEN NewVehicle(spot, PlayerStart, FALSE)
                 ELSE NoObject]
           /\ IF spawned
              THEN /\ currentVehicleTier \in TierSet \ {"FOOT"}
                   /\ isInVehicle \in BOOLEAN
              ELSE /\ currentVehicleTier = NullTier
                   /\ isInVehicle = FALSE
           /\ IF offered
              THEN /\ awaitingVehicleTier \in TierSet \ {"FOOT"}
                   /\ TierRank(awaitingVehicleTier)
                        = 1 + (IF spawned THEN TierRank(currentVehicleTier) ELSE 0)
              ELSE awaitingVehicleTier = NullTier

NextTier ==
  \/ CheckTierProgression
  \/ EnterVehicle
  \/ SwitchToAwaitingVehicle

SpecTier == InitTier /\ [][NextTier]_vars

\* Movement on every street: the squad chasing, or the Car driven, the other
\* staying as constructed.
InitStreet ==
  /\ InitManager
  /\ InitApp
  /\ NoTrack
  /\ worldReady = FALSE
  /\ OpenField
  /\ InitEngine
  /\ InitCop
  /\ InitRampage
  /\ InitMovement
  /\ NoEarly
  /\ InitCouncil
  /\ InitNotifications
  /\ InitBuffer
  /\ InitPreloader
  /\ InitAudio
  /\ obstacles \in StreetLayouts

OnlySquad == rider = NewRider

OnlyRider == \A i \in 1..SquadSize : squad[i] = SquadStart[i]

NextMovement ==
  \/ OnlySquad /\ \E i \in 1..SquadSize : SquadModelLoaded(i)
  \/ OnlySquad /\ \E i \in 1..SquadSize : SquadSetChaseTarget(i)
  \/ OnlySquad /\ \E i \in 1..SquadSize, d \in {0 - 1, 1} : SquadYuka(i, d)
  \/ OnlySquad /\ \E i \in 1..SquadSize : SquadUpdate(i)
  \/ OnlyRider /\ \E y \in SpawnHeights : RiderCreatePhysicsBody(y)
  \/ OnlyRider /\ \E move \in {0 - 1, 0, 1}, fall \in Falls : RiderUpdate(move, fall)
  \/ WorldStep

SpecMovement == InitStreet /\ [][NextMovement]_vars

\* Calls before and after their resource exists: the Car and the squad on
\* the empty street with Car.update and Cop.update called from the first
\* tick on, and, while both are as constructed, the manager's spawn calls
\* made from before the world exists.
SpawnVehicleCall(tier) ==
  /\ spawnVehicle(tier)
  /\ early' = IF ~vehicleSpawned /\ TIER_VEHICLE_MAP(tier) # "none" /\ ~worldReady
               THEN [early EXCEPT !.spawnVehicle = @ \cup {tier}] ELSE early
  /\ Record("spawnVehicle", NullTier, 0, {})
  /\ NoExit
  /\ UNCHANGED <<engineVars, copVars, rampageVars, moveVars, appVars, loopVars, audioVars, preloadVars, bufferVars, noteVars,
                 councilVars>>
  /\ UNCHANGED <<isInVehicle, awaitingVehicle, awaitingVehicleTier, vehiclesToCleanup,
                 playerVars, worldVars, score, maxReturned>>

SpawnAwaitingVehicleCall(tier) ==
  /\ spawnAwaitingVehicle(tier, playerPos)
  /\ early' = IF awaitingVehicle = NoVehicle /\ TIER_VEHICLE_MAP(tier) # "none" /\ ~worldReady
               THEN [early EXCEPT !.spawnAwaitingVehicle = @ \cup {tier}] ELSE early
  /\ Record("spawnAwaitingVehicle", NullTier, 0, {})
  /\ NoExit
  /\ UNCHANGED <<engineVars, copVars, rampageVars, moveVars, appVars, loopVars, audioVars, preloadVars, bufferVars, noteVars,
                 councilVars>>
  /\ UNCHANGED <<vehicle, isInVehicle, vehicleSpawned, currentVehicleTier,
                 vehiclesToCleanup, playerVars, worldVars, score, maxReturned>>

SquadUpdateCall(i) ==
  /\ squadUpdate(i)
  /\ early' = IF ~squad[i].modelLoaded THEN [early EXCEPT !.cop = @ \cup {i}] ELSE early
  /\ UNCHANGED <<vmVars, engineVars, copVars, rampageVars, appVars, loopVars, audioVars, preloadVars, bufferVars, noteVars,
                 councilVars>>

RiderUpdateCall(move, fall) ==
  /\ riderUpdate(move, fall)
  /\ early' = IF ~rider.rigidBody THEN [early EXCEPT !.car = TRUE] ELSE early
  /\ UNCHANGED <<vmVars, engineVars, copVars, rampageVars, appVars, loopVars, audioVars, preloadVars, bufferVars, noteVars,
                 councilVars>>

ManagerIdle == lastOp = "init"

\* The tiers the spawn calls are made with: one without a vehicle type and two
\* with one.
CallTiers == {"FOOT", "BIKE", "TRUCK"}

NextCalls ==
  \/ ManagerIdle /\ OnlySquad /\ \E i \in 1..SquadSize : SquadModelLoaded(i)
  \/ ManagerIdle /\ OnlySquad /\ \E i \in 1..SquadSize : SquadSetChaseTarget(i)
  \/ ManagerIdle /\ OnlySquad /\ \E i \in 1..SquadSize : SquadYuka(i, 1)
  \/ ManagerIdle /\ OnlySquad /\ \E i \in 1..SquadSize : SquadUpdateCall(i)
  \/ ManagerIdle /\ OnlyRider /\ \E y \in SpawnHeights : RiderCreatePhysicsBody(y)
  \/ ManagerIdle /\ OnlyRider
       /\ \E move \in {0 - 1, 0, 1}, fall \in Falls : RiderUpdateCall(move, fall)
  \/ ManagerIdle /\ WorldStep
  \/ OnlySquad /\ OnlyRider /\ WorldInit
  \/ OnlySquad /\ OnlyRider /\ \E tier \in CallTiers : SpawnVehicleCall(tier)
  \/ OnlySquad /\ OnlyRider /\ \E tier \in CallTiers : SpawnAwaitingVehicleCall(tier)

SpecCalls == Init /\ [][NextCalls]_vars

\* The manager's operations in every order, from before the world exists:
\* the spawn calls with every tier, entering, exiting, switching, the debug
\* spawn with every vehicle type and with none, and clear().
NextFlags ==
  \/ \E tier \in TierSet : SpawnVehicle(tier)
  \/ \E tier \in TierSet : SpawnAwaitingVehicle(tier)
  \/ EnterVehicle
  \/ ExitVehicle
  \/ SwitchToAwaitingVehicle
  \/ \E vehicleType \in VehicleTypes \cup {"none"} : DebugSpawnVehicle(vehicleType)
  \/ Clear
  \/ WorldInit

SpecFlags == Init /\ [][NextFlags]_vars

\* One Cop under every call order.
SpecCop == Init /\ [][NextCop]_vars

\* The three places where entities die: a behaviour exercises the Cop, or a
\* Car ridden by the avatar, or the GameEngine, the other two staying as
\* constructed.
OnlyCop == lastOp = "init" /\ state = "MENU"

OnlyCar == copOp = "new" /\ state = "MENU"

OnlyEngine == copOp = "new" /\ lastOp = "init"

NextCombat ==
  \/ OnlyCop /\ CopModelLoaded
  \/ OnlyCop /\ \E target \in ChaseTargets : CopSetChaseTarget(target)
  \/ OnlyCop /\ \E amount \in CopDamageAmounts : CopTakeDamage(amount)
  \/ OnlyCop /\ CopHideTimer
  \/ OnlyCar /\ WorldInit
  \/ OnlyCar /\ SpawnVehicle("BIKE")
  \/ OnlyCar /\ EnterVehicle
  \/ OnlyCar /\ \E amount \in DamageAmounts : TakeDamage(amount)
  \/ OnlyCar /\ \E v \in 1..MaxVehicles : DestroyedTimer(v)
  \/ OnlyEngine /\ \E spawn \in SpawnTypes : Start(spawn)
  \/ OnlyEngine /\ \E dt \in 0..MAX_FRAME_DT, action \in BOOLEAN, spawn \in SpawnTypes,
                       fates \in FateLists : Animate(dt, action, spawn, fates, MaxKills)

SpecCombat == Init /\ [][NextCombat]_vars

\* The AudioManager: the engine loop of one entity and the music, with their
\* timers in every order.
NextAudio ==
  \/ StartEngineLoop
  \/ StopEngineLoop
  \/ \E i \in 1..MaxSources : SoundFadeTimer(i)
  \/ \E i \in 1..MaxSources : SourceEnded(i)
  \/ \E crossfade \in BOOLEAN : PlayMusic(crossfade)
  \/ StopMusic
  \/ \E i \in 1..MaxSources : MusicFadeTimer(i)
  \/ \E dt \in 1..MUSIC_CROSSFADE_DURATION : AudioUpdate(dt)

SpecAudio == Init /\ [][NextAudio]_vars

\* The Preloader: calls of preloadAll overlapping in every order with the
\* settling of the two promises and the progress reports.
NextPreloader ==
  \/ \E c \in PreloadCallIds : PreloadAll(c)
  \/ RapierReady
  \/ RapierFailed
  \/ \E c \in PreloadCallIds : ResumeAfterRapier(c)
  \/ \E subPhase \in SubPhases, loaded \in 0..AssetTotal : AssetProgress(subPhase, loaded)
  \/ AssetsReady
  \/ AssetsFailed
  \/ \E c \in PreloadCallIds : ResumeAfterAssets(c)

SpecPreloader == Init /\ [][NextPreloader]_vars

\* A CircularBuffer of each capacity under every sequence of push and clear.
NextBuffer ==
  \/ \E capacity \in 0..MaxCapacity : Construct(capacity)
  \/ \E value \in BufferValues : Push(value)
  \/ ClearBuffer

SpecBuffer == Init /\ [][NextBuffer]_vars

\* The NotificationSystem: notifications added and their timers firing, in
\* every order.
NextNotifications ==
  \/ \E combo \in NotificationCombos : AddNotification(combo)
  \/ \E id \in 0..(MaxNotifications - 1) : NotificationTimer(id)

SpecNotifications == Init /\ [][NextNotifications]_vars

\* The AncestorCouncil entered, left and updated in every order; the frame
\* loop keeps calling update.
NextCouncil ==
  \/ Enter
  \/ Exit
  \/ \E dt \in CouncilDts : CouncilUpdate(dt)

SpecCouncil ==
  /\ Init
  /\ [][NextCouncil]_vars
  /\ WF_vars(\E dt \in CouncilDts : CouncilUpdate(dt))

\* ------------------------------------------------------------------------
\* Claims
\* ------------------------------------------------------------------------

\* Entry [vehicle v, timer t] is in queue q.
Queued(q, v, t) == \E i \in 1..Len(q) : q[i] = [vehicle |-> v, timer |-> t]

\* Vehicle v is in queue q.
InQueue(q, v) == \E i \in 1..Len(q) : q[i].vehicle = v

\* C1: a checkTierProgression call only returns a tier whose threshold the
\* score has reached, and on it (with a world) the awaiting vehicle of that
\* tier is spawned; every call made while a vehicle is awaiting returns null,
\* whatever the score, and so spawns nothing: one crossing, one
\* spawnAwaitingVehicle invocation.
C1_NoRetriggerWhileOffered ==
  [][ lastOp' = "checkTierProgression" =>
        /\ awaitingVehicle # NoVehicle =>
             /\ lastCheck' = NullTier
             /\ awaitingVehicle' = awaitingVehicle
             /\ numVehicles' = numVehicles
        /\ lastCheck' # NullTier =>
             /\ score >= minScore(lastCheck')
             /\ worldReady => /\ awaitingVehicle' = numVehicles'
                              /\ numVehicles' = numVehicles + 1
                              /\ awaitingVehicleTier' = lastCheck' ]_vars

\* C1 witness: a poll made while the BIKE is on offer, with the score already
\* past the next threshold too, returned null.
C1_Witness ==
  /\ lastOp = "checkTierProgression"
  /\ lastCheck = NullTier
  /\ awaitingVehicle # NoVehicle
  /\ awaitingVehicleTier = "BIKE"
  /\ score >= minScore("MOTO")

\* C2: within one run, once checkTierProgression has returned tier T it never
\* afterwards returns a tier earlier than T.
C2_TierMonotonic ==
  [][ (lastOp' = "checkTierProgression" /\ lastCheck' # NullTier)
        => TierRank(lastCheck') >= maxReturned ]_vars

\* C3: after a successful switchToAwaitingVehicle the previous current
\* vehicle, if there was one, is queued with the 3.0 s countdown and not yet
\* disposed; the former awaiting vehicle is the current one with its tier, no
\* vehicle is awaiting, and the avatar is in the vehicle.
C3_SwitchQueuesPrevious ==
  [][ lastOp' = "switchToAwaitingVehicle" =>
        /\ vehicle # NoVehicle =>
             /\ Queued(vehiclesToCleanup', vehicle, CLEANUP_TIMER)
             /\ vehicles'[vehicle].disposed = 0
        /\ vehicle' = awaitingVehicle
        /\ currentVehicleTier' = awaitingVehicleTier
        /\ awaitingVehicle' = NoVehicle
        /\ isInVehicle' ]_vars

\* What a step does to the vehicles in the queue, given which steps may
\* dispose them: a queued vehicle is undisposed; a step that is due for it
\* takes it out of the queue and disposes it (once, and out of the scene);
\* any other step leaves it queued and undisposed, its timer reduced by the
\* step's dt.
QueueDiscipline(dueAtClear) ==
  /\ \A v \in 1..MaxVehicles : vehicles'[v].disposed <= 1
  /\ \A i \in 1..Len(vehiclesToCleanup) :
       LET e == vehiclesToCleanup[i]
           due == \/ lastOp' = "update" /\ e.timer - lastDt' <= 0
                  \/ dueAtClear /\ lastOp' = "clear"
       IN  /\ vehicles[e.vehicle].disposed = 0
           /\ due => /\ ~InQueue(vehiclesToCleanup', e.vehicle)
                     /\ vehicles'[e.vehicle].disposed = 1
                     /\ ~vehicles'[e.vehicle].inScene
           /\ ~due => /\ Queued(vehiclesToCleanup', e.vehicle, e.timer - lastDt')
                      /\ vehicles'[e.vehicle].disposed = 0
                      /\ vehicles'[e.vehicle].inScene

\* C4 as stated: every queued vehicle leaves the queue and is disposed exactly
\* once, at the first update in which its countdown has reached zero or below,
\* never earlier, never twice, never left in the queue after that update.
C4_DisposedOnlyAtCountdownZero == [][QueueDiscipline(FALSE)]_vars

\* C4 amended: the same, or at a clear(), which disposes every queued vehicle
\* at once whatever its countdown.
C4_DisposedAtCountdownZeroOrClear == [][QueueDiscipline(TRUE)]_vars

\* C4 witness: an update has just disposed a vehicle whose countdown was
\* overshot (it was at 1 s and dt was 2 s) while a later entry stays queued.
C4_Witness ==
  /\ lastOp = "update"
  /\ lastDt = 2
  /\ lastDisposed # {}
  /\ Len(vehiclesToCleanup) = 1
  /\ vehiclesToCleanup[1].timer = 1
  /\ \A v \in lastDisposed : vehicles[v].disposed = 1 /\ ~vehicles[v].inScene

\* C5: when the destroyed-callback of the occupied vehicle runs (its health
\* reached 0), the avatar is ejected: no vehicle is current, the avatar is
\* not in a vehicle, and the destroyed vehicle is in the disposal queue with
\* the fixed countdown, not yet disposed.
C5_DestroyedVehicleQueued ==
  [][ ( /\ lastOp' = "onDestroyed"
        /\ vehicle # NoVehicle
        /\ isInVehicle
        /\ vehicles[vehicle].explodeTimer
        /\ ~vehicles'[vehicle].explodeTimer )
      => /\ vehicle' = NoVehicle
         /\ ~isInVehicle'
         /\ Queued(vehiclesToCleanup', vehicle, CLEANUP_TIMER)
         /\ vehicles'[vehicle].disposed = 0 ]_vars

\* Exit candidate i passes the horizontal building check and the downward
\* solid-ground check.
ExitCandidateSafe(i) == exitHit[i] # "BUILDING" /\ exitDownHit[i] = "GROUND"

\* C6: the position exitVehicle returns is a candidate offset from the vehicle
\* that passes both checks or, only when no candidate passes both, the
\* vehicle's own position.
C6_ExitPositionValidated ==
  lastExited # NoVehicle =>
    \/ \E i \in ExitCandidates :
         ExitCandidateSafe(i) /\ lastExitPos = VecAdd(lastExitFrom, exitOffsets[i])
    \/ /\ \A i \in ExitCandidates : ~ExitCandidateSafe(i)
       /\ lastExitPos = lastExitFrom

\* Spawn candidate i passes: the horizontal cast towards it hits no building
\* and the downward cast at it hits ground.
SpawnCandidateSafe(i) == spawnHit[i] # "BUILDING" /\ spawnDownHit[i] = "GROUND"

C8_KillScoresNewCappedCombo ==
  [][ stats'.kills = stats.kills + 1 =>
        stats'.score - stats.score =
          KILL_BASE + (KILL_BASE * Min(stats'.combo, COMBO_CAP)) \div 10 ]_vars

\* C9: at the end of every tick, a combo timer at 0 comes with a combo count
\* of 0 (the reset happens in the tick that takes the timer to 0), and so the
\* combo count is 0 whenever COMBO_WINDOW of tick time has passed without a
\* kill.
C9_ComboResetWithTimer ==
  /\ stats.comboTimer = 0 => stats.combo = 0
  /\ sinceKill >= COMBO_WINDOW => stats.combo = 0

\* C9 witness: a run with kills in which the window has run out since the
\* last one, the timer stands at 0 and the combo count reads 0.
C9_Witness ==
  /\ state = "PLAYING"
  /\ chain > 0
  /\ sinceKill = COMBO_WINDOW
  /\ stats.comboTimer = 0
  /\ stats.combo = 0

\* C10: right after a tick with a kill the combo count is the number of kills
\* since the last gap of 3 s or more (each kill counted once) and the combo
\* timer is back at the full window; ten kills less than 3 s apart give 10.
C10_ComboCountsChain ==
  (sinceKill = 0 /\ chain > 0) =>
    (stats.combo = chain /\ stats.comboTimer = COMBO_WINDOW)

\* C10 witness: the tenth kill of a chain has just happened, the ten kills
\* came in ten ticks with tick time (less than 3 s) between them, and the
\* combo count is 10.
C10_Witness ==
  /\ sinceKill = 0
  /\ chain = 10
  /\ spaced
  /\ stats.kills = 10
  /\ stats.combo = 10
  /\ stats.comboTimer = COMBO_WINDOW

\* C11: within a run the score never decreases: every step other than a
\* start() (which opens a new run) leaves the score where it was or higher,
\* whatever the tick does (kills, hits taken, combo decay, game over).
C11_ScoreNeverDecreases ==
  [][ ~(state # "PLAYING" /\ state' = "PLAYING") => stats'.score >= stats.score ]_vars

\* C11 witness: kills were scored in a chain and after a reset of the combo
\* (330 = 100 + 110 + 120 would be one chain; 310 has a reset in it), and the
\* combo has decayed again since.
C11_Witness ==
  /\ state = "PLAYING"
  /\ stats.kills = 3
  /\ stats.score = 310
  /\ stats.combo = 0

\* The points of k kills in a row, the first at combo count c.
ChainScore(c, k) == k * KILL_BASE + (KILL_BASE \div 10) * (k * c + (k * (k - 1)) \div 2)

\* C12: damage applied to a dead cop or to a destroyed car changes nothing,
\* die() and explode() run at most once per object, and a tick of the engine
\* counts each entity it kills once: as many kills as entities taken off the
\* list by kills, the combo count up by one per kill (from where the decay
\* left it) and the score up by the points of exactly those kills.
C12_DeathHandledOnce ==
  [][ /\ (copOp' = "takeDamage" /\ cop.isDead) => cop' = cop
      /\ cop'.deaths <= 1 /\ cop'.hideTimers <= cop'.deaths
      /\ (lastOp' = "takeDamage" /\ vehicles[vehicle].isDestroyed) => vehicles' = vehicles
      /\ \A v \in 1..MaxVehicles : vehicles'[v].explosions <= 1
      /\ (state = "PLAYING" /\ stats' # stats) =>
           LET k == stats'.kills - stats.kills
           IN  /\ k >= 0 /\ k <= Len(entities)
               /\ Len(entities') <= Len(entities) + 1 - k
               /\ stats'.combo \in {k, stats.combo + k}
               /\ stats'.score = stats.score + ChainScore(stats'.combo - k, k) ]_vars

\* C12 witness: takeDamage has just been applied to a cop that died earlier
\* (its hide timer has fired since), and die() has run once.
C12_Witness ==
  /\ copOp = "takeDamage"
  /\ cop.isDead
  /\ ~cop.visible
  /\ cop.deaths = 1
  /\ cop.hideTimers = 0

\* C13: a pedestrian dies on its first hit whatever the amount, and a hostile
\* with health h dies only on the hit that brings its health to 0 or below:
\* the kills of a tick are never more than the entities that are pedestrians
\* or hostiles whose health has been brought to 0 or below.
C13_HostileDiesOnlyAtZeroHealth ==
  [][ state = "PLAYING" =>
        stats'.kills - stats.kills <=
          Cardinality({i \in 1..Len(entities) :
                         \/ entities[i].type = "PEDESTRIAN"
                         \/ entities[i].health <= 0}) ]_vars

\* C14: a tick that starts in the Active rampage and runs the subsystems
\* hands the avatar the full dt (time scale 1.0) and the hostiles and
\* pedestrians 0.3 of it, both in the same tick; the avatar gets the full dt
\* in every tick that runs, whatever the state; and the published time scale
\* is 0.3 exactly while the rampage is Active.
C14_RampageTimeScales ==
  [][ /\ (rampageOp' = "update" /\ tickRan') =>
           /\ playerDt' = tickDt' * FULL_SPEED
           /\ inRampageMode => entityDt' * FULL_SPEED = playerDt' * RAMPAGE_SLOW_MO
           /\ ~inRampageMode => entityDt' = playerDt'
      /\ inRampageMode' <=> rampageTimeScale' = RAMPAGE_SLOW_MO
      /\ ~inRampageMode' <=> rampageTimeScale' = FULL_SPEED ]_vars

\* C14 witness: a tick of two time units has run in the Active rampage, the
\* avatar got 2.0 and the others 0.6, and the rampage goes on.
C14_Witness ==
  /\ inRampageMode
  /\ tickRan
  /\ rampageTime = 2
  /\ playerDt = 20
  /\ entityDt = 6

\* C15: a tick that finds the hit-stop timer positive runs no subsystem: the
\* combo timer, the combo count, the score and the kills stay as they are,
\* nobody gets any dt, the rampage neither ages nor closes, and the hit-stop
\* timer goes down by dt.
C15_HitStopFreezesTick ==
  [][ (rampageOp' = "update" /\ hitStopTimer > 0) =>
        /\ ~tickRan' /\ playerDt' = 0 /\ entityDt' = 0
        /\ UNCHANGED <<comboTimer, comboCount, comboScore, comboKills>>
        /\ UNCHANGED <<inRampageMode, rampageTimeScale, rampageKills, rampageTime>>
        /\ hitStopTimer' = hitStopTimer - tickDt' ]_vars

\* C15 witness: a frozen tick of one time unit has just used the hit-stop up,
\* right after the entry into the rampage.
C15_Witness ==
  /\ rampageOp = "update"
  /\ ~tickRan
  /\ tickDt = 1
  /\ hitStopTimer = 0
  /\ inRampageMode
  /\ comboTimer = COMBO_WINDOW

C17_ComboTimerFullSpeed ==
  [][ (rampageOp' = "update" /\ tickRan' /\ comboKills' = comboKills) =>
        /\ comboTimer' = Max(0, comboTimer - tickDt')
        /\ comboTimer' * FULL_SPEED = Max(0, comboTimer * FULL_SPEED - playerDt') ]_vars

\* C17 witness: a tick of two time units without a kill has run in the Active
\* rampage: the others got 0.6 time units, the combo timer lost 2.
C17_Witness ==
  /\ inRampageMode
  /\ tickRan
  /\ tickDt = 2
  /\ entityDt = 6
  /\ comboTimer = COMBO_WINDOW - 2
  /\ rampageKills = 0

\* C20: a dead cop has max speed 0 and no steering behaviour and stays dead;
\* a setChaseTarget, takeDamage or update call on a dead cop changes nothing
\* of it (no behaviour added, no speed restored, no position set), and no
\* step of any kind moves its Yuka vehicle or its THREE.Group.
C20_DeadCopStaysInert ==
  [][ cop.isDead =>
        /\ cop.maxSpeed = 0 /\ cop.steering = <<>>
        /\ cop'.isDead /\ cop'.maxSpeed = 0 /\ cop'.steering = <<>>
        /\ cop'.yukaPosition = cop.yukaPosition
        /\ cop'.position = cop.position
        /\ cop'.nextTranslation = cop.nextTranslation
        /\ copOp' \in {"setChaseTarget", "takeDamage", "update"} => cop' = cop ]_vars

\* C20 witness: update has just been called on a dead cop whose model is
\* loaded and whose Yuka vehicle had moved away from its body before it
\* died (a living cop would have followed it).
C20_Witness ==
  /\ cop.isDead
  /\ cop.modelLoaded
  /\ copOp = "update"
  /\ cop.yukaPosition[1] # cop.translation[1]
  /\ cop.managed

\* C18: the position an entity commits after movement resolution is never
\* inside an obstacle whose membership intersects its filter: not in the cell
\* of a standing obstacle of such a membership, and, for a cop (whose filter
\* holds the cops' membership), not in the cell another cop has committed to.
C18_NoPenetration ==
  /\ \A i \in 1..SquadSize :
       ~Deflects(copCollisionGroups, obstacles[squad[i].nextTranslation[1]])
  /\ \A i, j \in 1..SquadSize :
       (i # j /\ Deflects(copCollisionGroups, MembershipOf(copCollisionGroups)))
         => squad[i].nextTranslation # squad[j].nextTranslation
  /\ rider.rigidBody => ~Deflects(movementCollisionFilter, obstacles[rider.nextTranslation])

\* A single bit of a 16-bit group mask.
IsSingleBit(c) == \E k \in 0..15 : c = 2 ^ k

\* The Car's update moves towards the next cell: it stays where it is when
\* the cell holds an obstacle of one of the memberships in deflecting, and
\* takes the cell when it holds nothing or one of those in passing.
CarDeflectedBy(deflecting, passing) ==
  (moveOp'.op = "carUpdate" /\ rider.rigidBody) =>
    LET target == rider.translation + moveOp'.move
    IN  /\ obstacles[target] \in deflecting => rider'.nextTranslation = rider.translation
        /\ obstacles[target] \in passing \cup {0} => rider'.nextTranslation = target

\* C19 as stated: every collision category is one bit of its own, and the
\* vehicle's movement filter selects exactly ground, buildings and other
\* vehicles: a vehicle's movement is deflected by those and passes through
\* pedestrians.
C19_VehicleFilterWithVehicles ==
  [][ /\ \A c \in Categories : IsSingleBit(c)
      /\ Cardinality(Categories) = 8
      /\ CarDeflectedBy({GROUND, BUILDING, VEHICLE}, {PEDESTRIAN}) ]_vars

\* C19 as amended: every collision category is one bit of its own, and the
\* vehicle's movement filter selects exactly ground and buildings: a
\* vehicle's movement is deflected by those and passes through pedestrians,
\* cops and other vehicles.
C19_VehicleFilterGroundBuildings ==
  [][ /\ \A c \in Categories : IsSingleBit(c)
      /\ Cardinality(Categories) = 8
      /\ FilterOf(movementCollisionFilter) = BitOr(GROUND, BUILDING)
      /\ MembershipOf(movementCollisionFilter) = VEHICLE
      /\ CarDeflectedBy({GROUND, BUILDING}, {PEDESTRIAN, COP, VEHICLE}) ]_vars

\* C19 witness: the Car has just driven into the cell at the end of the
\* street, where a pedestrian stands, past the cop standing on its way.
C19_Witness ==
  /\ moveOp.op = "carUpdate"
  /\ moveOp.move = 1
  /\ obstacles[MaxStreet] = PEDESTRIAN
  /\ rider.nextTranslation = MaxStreet
  /\ squad[2].translation[1] = MaxStreet - 1

\* A Cop.update that passed its early returns, and a Car.update that passed
\* its own, made this step.
CopMoved(i) ==
  /\ moveOp'.op = "copUpdate" /\ moveOp'.who = i
  /\ squad[i].modelLoaded /\ ~squad[i].isDead

CarMoved ==
  /\ moveOp'.op = "carUpdate"
  /\ rider.rigidBody /\ ~rider.isDestroyed

\* C21 as stated: a movement step commits exactly the previous position plus
\* the corrected displacement the obstacle query returned, in every
\* component; with a zero displacement the entity stays where it was.
C21_CommitsPreviousPlusCorrected ==
  [][ /\ \A i \in 1..SquadSize :
           CopMoved(i) =>
             squad'[i].nextTranslation =
               VecAdd(squad[i].translation, <<moveOp'.corrected, 0, 0>>)
      /\ CarMoved =>
           /\ rider'.nextTranslation = rider.translation + moveOp'.corrected
           /\ rider'.nextTranslationY = rider.translationY + moveOp'.fall ]_vars

\* C21 as amended: a movement step commits the previous position plus the
\* corrected displacement along the ground (x and z); the height it commits
\* is the ground's (0) for a Cop and the previous height plus the corrected
\* fall, but at least 0.5, for a Car.  With a zero displacement the entity
\* keeps its place on the ground plane.  The step is always enabled and
\* leaves every other entity alone.
C21_CommitsGroundPlanePlusCorrected ==
  [][ /\ \A i \in 1..SquadSize :
           CopMoved(i) =>
             /\ squad'[i].nextTranslation =
                  << squad[i].translation[1] + moveOp'.corrected, 0,
                     squad[i].translation[3] >>
             /\ moveOp'.corrected = 0 =>
                  /\ squad'[i].nextTranslation[1] = squad[i].translation[1]
                  /\ squad'[i].nextTranslation[3] = squad[i].translation[3]
             /\ \A j \in (1..SquadSize) \ {i} : squad'[j] = squad[j]
      /\ CarMoved =>
           /\ rider'.nextTranslation = rider.translation + moveOp'.corrected
           /\ rider'.nextTranslationY =
                Max(KEEP_ABOVE_GROUND, rider.translationY + moveOp'.fall)
           /\ moveOp'.corrected = 0 => rider'.nextTranslation = rider.translation
           /\ squad' = squad ]_vars

\* C21 witness: the Car, driven towards the building at the end of the
\* street, got a zero displacement and stays in the cell in front of it.
C21_Witness ==
  /\ moveOp.op = "carUpdate"
  /\ moveOp.move = 1
  /\ moveOp.corrected = 0
  /\ obstacles[MaxStreet] = BUILDING
  /\ rider.rigidBody
  /\ rider.translation = MaxStreet - 1
  /\ rider.nextTranslation = MaxStreet - 1

\* The game a step leaves as it was: score, combo, kills, tier (the old
\* engine keeps the avatar on foot) and health, and the entities, to which
\* the first tick of a resumed loop may add the one it spawns.
GameKept ==
  /\ stats'.score = stats.score
  /\ stats'.combo = stats.combo
  /\ stats'.kills = stats.kills
  /\ player' = player
  /\ \E type \in SpawnTypes : entities' = spawnEntity(entities, type)

\* C22: pausing and then resuming leaves score, combo, kills, tier, health
\* and the entities as they were at the moment of the pause: the step that
\* pauses the engine, every step while it is paused and the step that
\* resumes it keep them.
C22_PauseResumeKeepsGame ==
  [][ (appOp' = "pause" \/ held = "pause") => GameKept ]_vars

\* C23: the destroyed-callback of a vehicle ejects the avatar only from that
\* vehicle: when the callback of a vehicle fires that switchToAwaitingVehicle
\* has replaced (it waits in the disposal queue), the vehicle that is
\* current by then stays current, in the scene and undisposed, and the
\* avatar stays in it.
C23_CallbackEjectsOwnVehicleOnly ==
  [][ \A v \in 1..MaxVehicles :
        ( /\ lastOp' = "onDestroyed"
          /\ vehicles[v].explodeTimer /\ ~vehicles'[v].explodeTimer
          /\ InQueue(vehiclesToCleanup, v)
          /\ vehicle # NoVehicle /\ vehicle # v )
        => /\ vehicle' = vehicle
           /\ isInVehicle' = isInVehicle
           /\ vehicles'[vehicle].inScene = vehicles[vehicle].inScene
           /\ vehicles'[vehicle].disposed = vehicles[vehicle].disposed ]_vars

C25_MovementBeforeChecks ==
  \A i, j \in 1..Len(posLog) :
    (i < j /\ posLog[i].op \in {"check", "checkDistant"})
      => posLog[j].op # "move"

\* C26: at the end of every update of a live cop its steering-side position
\* (the Yuka vehicle's) is the position committed to the physics body, the
\* same x and z at the same height: the next steering computation starts
\* from it.
C26_SteeringSyncedAfterUpdate ==
  (copOp = "update" /\ ~cop.isDead) => cop.yukaPosition = cop.nextTranslation

\* C27: a call made while its resource is missing changes no simulation
\* state (Car.update without a rigid body leaves the Car, Cop.update of a
\* cop without its model leaves the squad, spawnVehicle and
\* spawnAwaitingVehicle without a world leave the manager and its vehicles as
\* they were), and the same call made once the resource exists takes effect:
\* the live Car and the live cop commit their corrected movement, and the
\* spawn calls create the vehicle they were asked for.
C27_Call ==
  /\ (moveOp'.op = "carUpdate" /\ ~rider.rigidBody) => UNCHANGED <<rider, squad, obstacles>>
  /\ (moveOp'.op = "carUpdate" /\ rider.rigidBody /\ ~rider.isDestroyed)
       => /\ rider'.nextTranslation = rider.translation + moveOp'.corrected
          /\ rider'.position = rider'.nextTranslation
  /\ \A i \in 1..SquadSize :
       /\ (moveOp'.op = "copUpdate" /\ moveOp'.who = i /\ ~squad[i].modelLoaded)
            => UNCHANGED <<rider, squad, obstacles>>
       /\ (moveOp'.op = "copUpdate" /\ moveOp'.who = i /\ squad[i].modelLoaded
              /\ ~squad[i].isDead)
            => /\ squad'[i].nextTranslation[1] = squad[i].translation[1] + moveOp'.corrected
               /\ squad'[i].position = squad'[i].nextTranslation
  /\ (lastOp' = "spawnVehicle" /\ ~worldReady) => UNCHANGED <<managerVars, objectVars>>
  /\ (lastOp' = "spawnVehicle" /\ worldReady /\ ~vehicleSpawned
         /\ currentVehicleTier' # currentVehicleTier)
       => /\ vehicle' = numVehicles + 1
          /\ vehicles'[vehicle'] # NoObject
          /\ vehicleSpawned'
  /\ (lastOp' = "spawnAwaitingVehicle" /\ ~worldReady) => UNCHANGED <<managerVars, objectVars>>
  /\ (lastOp' = "spawnAwaitingVehicle" /\ worldReady /\ awaitingVehicle = NoVehicle
         /\ awaitingVehicleTier' # awaitingVehicleTier)
       => /\ awaitingVehicle' = numVehicles + 1
          /\ vehicles'[awaitingVehicle'] # NoObject

C27_EarlyCallsDeferred == [][C27_Call]_vars

\* Every kind of call was made before its resource existed, and the
\* spawnVehicle call that had returned for want of a world has now spawned
\* the vehicle of its tier.
C27_Witness ==
  /\ early.car
  /\ early.cop # {}
  /\ early.spawnAwaitingVehicle # {}
  /\ currentVehicleTier \in early.spawnVehicle
  /\ lastOp = "spawnVehicle"
  /\ vehicle # NoVehicle
  /\ vehicles[vehicle] # NoObject

\* The Car's update that had returned for want of a rigid body has now
\* moved the Car.
C27_CarLater == early.car /\ moveOp.op = "carUpdate" /\ rider.rigidBody /\ rider.position # 0

\* The update of a cop that had returned for want of its model has now moved
\* the cop.
C27_CopLater ==
  \E i \in early.cop :
    /\ moveOp.op = "copUpdate" /\ moveOp.who = i /\ squad[i].modelLoaded
    /\ squad[i].position # SquadStart[i].position

\* The tier checkTierProgression works from: the current vehicle's when the
\* avatar is in a vehicle or one is spawned, else Foot.
EffectiveTier ==
  IF isInVehicle \/ vehicleSpawned THEN currentVehicleTier ELSE "FOOT"

\* C28: checkTierProgression returns null or the immediate successor of the
\* effective tier in the order Foot, Bike, Moto, Sedan, Truck, whatever
\* thresholds the score has passed, and null when the effective tier is
\* Truck.
C28_Check ==
  lastOp' = "checkTierProgression"
    => /\ lastCheck' # NullTier
            => TierRank(lastCheck')
                 = 1 + (IF EffectiveTier = NullTier THEN 0 ELSE TierRank(EffectiveTier))
       /\ EffectiveTier = "TRUCK" => lastCheck' = NullTier

C28_ReturnsImmediateSuccessor == [][C28_Check]_vars

\* On foot with a score past every threshold, checkTierProgression has
\* returned Bike.
C28_Witness ==
  /\ lastOp = "checkTierProgression"
  /\ lastCheck = "BIKE"
  /\ score >= minScore("TRUCK")
  /\ ~vehicleSpawned
  /\ ~isInVehicle

\* In a Truck with a score past every threshold, checkTierProgression has
\* returned null.
C28_TruckNull ==
  /\ lastOp = "checkTierProgression"
  /\ lastCheck = NullTier
  /\ score >= minScore("TRUCK")
  /\ isInVehicle
  /\ currentVehicleTier = "TRUCK"
  /\ awaitingVehicle = NoVehicle

\* C29: the manager's flags agree with its references: the avatar is marked
\* in-vehicle only if a current vehicle exists, the vehicle-spawned flag and
\* the current tier are set exactly when a current vehicle exists, and an
\* awaiting tier is recorded exactly when an awaiting vehicle exists.
C29_FlagsAgreeWithReferences ==
  /\ isInVehicle => vehicle # NoVehicle
  /\ vehicleSpawned <=> vehicle # NoVehicle
  /\ currentVehicleTier # NullTier <=> vehicle # NoVehicle
  /\ awaitingVehicleTier # NullTier <=> awaitingVehicle # NoVehicle

\* The avatar has switched vehicles, rides the new one with the old one
\* queued, and the next vehicle has been spawned awaiting: every flag is set
\* and every reference holds a vehicle.
C29_Witness ==
  /\ lastOp = "spawnAwaitingVehicle"
  /\ isInVehicle
  /\ vehicle # NoVehicle
  /\ awaitingVehicle # NoVehicle
  /\ awaitingVehicleTier # NullTier
  /\ vehiclesToCleanup # <<>>

\* The references and flags clear() leaves.
NothingHeld ==
  /\ vehicle = NoVehicle
  /\ awaitingVehicle = NoVehicle
  /\ vehiclesToCleanup = <<>>
  /\ ~isInVehicle
  /\ ~vehicleSpawned
  /\ currentVehicleTier = NullTier
  /\ awaitingVehicleTier = NullTier

\* C30: after clear() there is no active vehicle, no awaiting vehicle and an
\* empty disposal queue, the avatar is not in a vehicle and no tier is
\* recorded, and every vehicle that was active, awaiting or queued (every
\* vehicle constructed so far: each is constructed as the active or the
\* awaiting one) is out of the scene and has been disposed exactly once.
C30_AfterClear ==
  lastOp' = "clear"
    => /\ NothingHeld'
       /\ \A v \in 1..numVehicles :
            /\ ~vehicles'[v].inScene
            /\ vehicles'[v].disposed = 1

C30_ClearLeavesNoVehicle == [][C30_AfterClear]_vars

\* C30, for the vehicles the manager holds when clear() is called: they are
\* out of the scene and disposed exactly once, and nothing is held after it.
C30_Clear ==
  lastOp' = "clear"
    => /\ vehicle' = NoVehicle
       /\ awaitingVehicle' = NoVehicle
       /\ vehiclesToCleanup' = <<>>
       /\ ~isInVehicle'
       /\ ~vehicleSpawned'
       /\ currentVehicleTier' = NullTier
       /\ awaitingVehicleTier' = NullTier
       /\ \A v \in EntryVehicles(HeldVehicles) :
            /\ ~vehicles'[v].inScene
            /\ vehicles'[v].disposed = 1

C30_ClearLeavesNothing == [][C30_Clear]_vars

\* clear() has run with a vehicle active, one awaiting and one queued, and
\* disposed the three.
C30_Witness ==
  /\ lastOp = "clear"
  /\ Cardinality(lastDisposed) = 3
  /\ \A v \in lastDisposed : ~vehicles[v].inScene /\ vehicles[v].disposed = 1
  /\ vehicle = NoVehicle
  /\ vehiclesToCleanup = <<>>

\* C31: after a setChaseTarget call on a live cop its behavior list holds
\* exactly one seek (weight 0.8, target on the ground plane, one of the
\* targets handed in), one separation (weight 1.5) and one obstacle avoidance
\* (weight 0.3), and at no time does the list hold more than these three.
C31_ThreeBehaviorsAfterSetChaseTarget ==
  /\ Len(cop.steering) <= 3
  /\ (copOp = "setChaseTarget" /\ ~cop.isDead)
       => /\ Len(cop.steering) = 3
          /\ cop.steering[1].kind = "seek"
          /\ cop.steering[1].weight = SEEK_WEIGHT
          /\ cop.steering[1].target \in {<<t[1], 0, t[3]>> : t \in ChaseTargets}
          /\ cop.steering[2].kind = "separation"
          /\ cop.steering[2].weight = SEPARATION_WEIGHT
          /\ cop.steering[3].kind = "obstacleAvoidance"
          /\ cop.steering[3].weight = OBSTACLE_WEIGHT

\* setChaseTarget has been called again on a live cop that an earlier call
\* had already set chasing (its Yuka vehicle has moved since).
C31_Witness ==
  /\ copOp = "setChaseTarget"
  /\ ~cop.isDead
  /\ cop.yukaPosition # CopStart
  /\ Len(cop.steering) = 3

\* C32: whatever the order of start(), stop(), game over and frame
\* callbacks, at most one animation-frame callback is pending.
C32_OneFramePending == frames <= 1

\* C33: within one run (from a start() to the next) callbacks.onGameOver is
\* called at most once.
C33_GameOverDeliveredOnce == gameOvers <= 1

\* A source of the given kind is started and not stopped.
StillPlaying(kind) ==
  \E i \in 1..Len(sources) : sources[i].kind = kind /\ sources[i].playing

\* C34: once the last engine-loop call for the entity was stopEngineLoop and
\* no fade-out timer (and no onended) is pending, no source started for the
\* entity is still playing.
C34_NoLoopAfterStop ==
  (lastLoopCall = "stop" /\ timers = {} /\ ended = {}) => ~StillPlaying("loop")

\* C35: once the last music call was stopMusic and its fade timer has fired,
\* no source started by playMusic is still playing.
C35_NoMusicAfterStop ==
  (lastMusicCall = "stop" /\ timers = {}) => ~StillPlaying("music")

\* C36: however the calls of preloadAll overlap, RAPIER.init and the asset
\* loader are each started at most once, and while a call stands completed
\* the loading state is phase 'complete' with progress 1.
C36_LoadsOnceAndCompletes ==
  /\ preloader.rapierStarts <= 1
  /\ preloader.assetsStarts <= 1
  /\ (\E c \in PreloadCallIds : preloadCalls[c] = "done")
       => /\ preloader.phase = "complete"
          /\ preloader.progress = PROGRESS_COMPLETE

\* Two overlapped calls have completed and a third one is made after them.
C36_Witness ==
  /\ preloadCalls[1] = "done"
  /\ preloadCalls[2] = "done"
  /\ preloadCalls[3] = "awaitRapier"
  /\ preloader.rapierStarts = 1
  /\ preloader.assetsStarts = 1

RECURSIVE SumOfLast(_, _)
\* The sum of the last k values of a sequence.
SumOfLast(seq, k) ==
  IF k = 0 THEN 0 ELSE seq[Len(seq)] + SumOfLast(SubSeq(seq, 1, Len(seq) - 1), k - 1)

\* C37: with n pushes since the last clear on a buffer of capacity c, length
\* is min(n, c), sum() is the sum of the last min(n, c) values pushed, and
\* average() is that sum over length, or 0 when the buffer is empty.
C37_LastValuesSummed ==
  ring.capacity # NotConstructed =>
    LET k == Min(Len(pushed), ring.capacity)
    IN  /\ length(ring) = k
        /\ sum(ring) = SumOfLast(pushed, k)
        /\ average(ring) = IF k = 0 THEN <<0, 1>> ELSE <<SumOfLast(pushed, k), k>>

\* Two values pushed after a clear into a buffer of capacity 3 that still
\* holds, past them, a value pushed before the clear.
C37_Witness ==
  /\ ring.capacity = 3
  /\ Len(pushed) = 2
  /\ ring.buffer[2] # 0
  /\ sum(ring) = pushed[1] + pushed[2]

\* An addNotification call is made while 3 notifications are shown.
C38_AddWhileFull == nextId' = nextId + 1 /\ Len(notifications) = 3

\* C38: the notification list never holds more than 3 entries, and adding
\* while 3 are shown drops the oldest (first, lowest id) and keeps the two
\* newer ones followed by the new one.
C38_AtMostThreeOldestEvicted ==
  /\ [](Len(notifications) <= 3)
  /\ [][C38_AddWhileFull =>
          /\ \A i \in 2..3 : notifications[1].id < notifications[i].id
          /\ notifications' = SubSeq(notifications, 2, 3) \o <<notifications'[3]>>
          /\ notifications'[3].id = nextId]_vars

\* The first notification was evicted by the fourth: its timer is still
\* pending and the list holds the three after it.
C38_Witness ==
  /\ Len(notifications) = 3
  /\ notifications[1].id = 1
  /\ notifications[3].id = 3
  /\ 0 \in noteTimers

\* C39: after exit(), the repeated update calls (frame times of 0.02 s to
\* 0.5 s) hide the ancestor meshes unless enter() comes first, and hidden
\* meshes become visible again only by a step of enter().
C39_HiddenAfterExit ==
  /\ (~council.isActive) ~> (~council.visible \/ council.isActive)
  /\ [][(~council.visible /\ council'.visible)
          => (~council.isActive /\ council' = enter(council))]_vars

\* The meshes were hidden by the fade after an exit(): the opacity is under
\* the threshold and not yet 0.
C39_Witness ==
  /\ ~council.isActive
  /\ ~council.visible
  /\ council.currentOpacity > 0
  /\ council.currentOpacity < HIDE_OPACITY

====
